---- MODULE Spec2Model ----
(***************************************************************************)
(* Model of the multi-material print orchestrator:                         *)
(*   src/src/controller/print_manager.py   (PrintManager)                  *)
(*   src/src/controller/websocket_ipc.py   (WebSocketIPCClient)            *)
(*   src/src/controller/mmu_control.py     (MMUController)                 *)
(*                                                                         *)
(* Three threads of control share the PrintManager object:                 *)
(*   - the monitoring thread running PrintManager._monitoring_loop (mpc),  *)
(*   - the socket thread running the WebSocketIPCClient "command" event    *)
(*     handler, which calls PrintManager._handle_websocket_command (cpc),  *)
(*   - an external caller of start_monitoring / stop_monitoring (xpc).     *)
(* The printer and the pumps are the environment: every printer request    *)
(* and every pump run is a begin step and an end step, the end step        *)
(* choosing success or failure.                                            *)
(***************************************************************************)
EXTENDS Integers, Sequences, FiniteSets, TLC

\* ------------------------------------------------------------------ bounds
\* Highest layer of the simulated print (total_layers of the printer status).
MaxLayer == 3
\* Number of commands the web application sends over the whole execution.
MaxCmds == 1
\* Entries in a recipe text of the recipe-file specification.
MaxEntries == 3
\* Printer requests in a behaviour of the printer-link specification.
MaxRequests == 3
\* Largest volume (ml) of a pump run of the pump-volume specification.
MaxVolume == 50

\* ------------------------------------------------------------ program data
\* The recipe file "A,1:B,2" as load_recipe parses it: layer -> material.
RecipeFile == (1 :> "A") @@ (2 :> "B")
\* The text of that file.
RecipeFileText == <<"A", ",", "1", ":", "B", ",", "2">>
\* The empty mapping: self.recipe of a fresh PrintManager.
NoRecipe == [l \in {} |-> "A"]
\* _last_processed_layer = None, and a status with no usable current_layer.
None == 0

States == {"idle", "starting", "monitoring", "material_changing", "pausing",
           "stopping", "error"}

\* Kinds of command the web application sends ("pump_control_bad" is a
\* pump_control whose motor parameter is not a string).
CmdTypes == {"start_multi_material", "stop_multi_material", "emergency_stop",
             "pump_control", "pump_control_bad", "pause_print", "resume_print",
             "stop_print", "unknown"}
NoCmd == [id |-> 0, type |-> "none"]

VARIABLES
    state,                  \* self.state
    recipe,                 \* self.recipe
    printer_ip,             \* self.printer_ip
    last_processed_layer,   \* self._last_processed_layer (0 = None)
    recipe_active,          \* self._recipe_active
    stop_event,             \* self._stop_event.is_set()
    estop_at,               \* where the monitoring thread was when an
                            \* emergency_stop command set the stop event
                            \* ("none": not set by an emergency stop)
    quiescent,              \* time.time() < self._quiescent_until
    lock,                   \* holder of self._state_lock across steps
    mpc,                    \* monitoring thread: position in _monitoring_loop
    mlayer,                 \* monitoring thread: current_layer of this iteration
    mdone,                  \* monitoring thread: polled status says complete
    mcmd,                   \* monitoring thread: command being dispatched
    cyc,                    \* steps of this iteration's material change, in order
    changes,                \* material changes triggered by the current run
    last_event,             \* last status event the monitoring thread sent in
                            \* this iteration
    cpc,                    \* socket thread: position in the command handler
    ccmd,                   \* socket thread: command being handled
    connected,              \* websocket_client.connected
    command_queue,          \* websocket_client.command_queue
    nextId,                 \* id of the next command the web app sends
    handled,                \* id -> number of _process_shared_command runs
    answered,               \* id -> number of command_result events emitted
    printer,                \* the printer: [mode, layer]
    xpc,                    \* external caller: position in stop_monitoring
                            \* or get_current_state
    xret,                   \* external caller: what its last call returned
    snapshot,               \* external caller: the part of get_current_state's
                            \* dictionary evaluated so far
    recipe_text,            \* the recipe file: its text, character by character
    pairs,                  \* load_recipe: the entries of the text not yet looked at
    lpc,                    \* load_recipe: position in a load of the file as such
    resaved,                \* the web application's load and save of the file:
                            \* the text before it and the recipe loaded from that
    link,                   \* PrinterCommunicator._run_printer_command taken by
                            \* itself: position, command, outcome of each attempt
    pumprun,                \* MMUController.run_pump_volume taken by itself:
                            \* position, arguments, what run_stepper was given
    mmu,                    \* MMUController.change_material with its air-assist
                            \* valve: position, solenoid settings, valve, result
    cmdres                  \* _process_shared_command for one hardware command
                            \* taken by itself: position, thread, command type,
                            \* outcome of the delegated operation, result sent

vars == <<state, recipe, printer_ip, last_processed_layer, recipe_active,
          stop_event, estop_at, quiescent, lock, mpc, mlayer, mdone, mcmd, cyc,
          changes, last_event, cpc, ccmd, connected, command_queue, nextId, handled,
          answered, printer, xpc, xret, snapshot, recipe_text, pairs, lpc,
          resaved, link, pumprun, mmu, cmdres>>

\* Groups used by UNCHANGED.
orchVars == <<state, recipe, printer_ip, last_processed_layer, recipe_active,
              stop_event, estop_at, quiescent>>
monVars  == <<mpc, mlayer, mdone, mcmd, cyc, changes, last_event>>
sockVars == <<cpc, ccmd>>
chanVars == <<connected, command_queue, nextId, handled, answered>>
extVars  == <<xpc, lock, xret, snapshot>>
fileVars == <<recipe_text, pairs, lpc, resaved>>
hwVars   == <<link, pumprun, mmu, cmdres>>

NoEvent == [tag |-> "none", level |-> "info"]
Event(tag, level) == [tag |-> tag, level |-> level]

\* No printer request has been made through _run_printer_command.
NoRequest == [pc |-> "r_idle", command |-> "none", outcomes |-> <<>>,
              requests |-> 0]

\* run_pump_volume has not been called.
NoPumpRun == [pc |-> "v_idle", volume_ml |-> 0, flow_rate |-> 0,
              usr_time |-> 0]

\* change_material is not being executed; init_solenoid left the valve
\* closed.
NoSequence == [pc |-> "s_idle", enabled |-> FALSE, pre_delay |-> 0,
               post_delay |-> 0, valve |-> "closed", result |-> "none"]

\* No hardware command is being processed.
NoResult == [pc |-> "p_idle", thread |-> "none", type |-> "none",
             outcome |-> "none", success |-> "none"]

\* The web application has not rewritten the recipe file.
NotResaved == [text |-> <<>>, recipe |-> NoRecipe, done |-> FALSE]

\* get_current_state is not being evaluated.
NoSnapshot == [state |-> "none", recipe_count |-> 0]

\* PrintManager.__init__
Init ==
    /\ state = "idle"
    /\ recipe = NoRecipe
    /\ printer_ip = "config"
    /\ last_processed_layer = None
    /\ recipe_active = FALSE
    /\ stop_event = FALSE
    /\ estop_at = "none"
    /\ quiescent = FALSE
    /\ lock = "free"
    /\ mpc = "none"
    /\ mlayer = None
    /\ mdone = FALSE
    /\ mcmd = NoCmd
    /\ cyc = <<>>
    /\ changes = <<>>
    /\ last_event = NoEvent
    /\ cpc = "c_idle"
    /\ ccmd = NoCmd
    /\ connected = FALSE
    /\ command_queue = <<>>
    /\ nextId = 1
    /\ handled = [i \in 1..MaxCmds |-> 0]
    /\ answered = [i \in 1..MaxCmds |-> 0]
    /\ printer = [mode |-> "print", layer |-> 0]
    /\ xpc = "x_idle"
    /\ xret = "none"
    /\ snapshot = NoSnapshot
    /\ recipe_text = RecipeFileText
    /\ pairs = <<>>
    /\ lpc = "l_idle"
    /\ resaved = NotResaved
    /\ link = NoRequest
    /\ pumprun = NoPumpRun
    /\ mmu = NoSequence
    /\ cmdres = NoResult

\* ----------------------------------------------------------------- helpers
\* threading.Thread.is_alive() of self._monitor_thread
ThreadAlive == mpc # "none"

\* websocket_client.is_connected()
is_connected == connected

\* PrintManager.load_recipe on the recipe file: the parsed mapping replaces
\* self.recipe.
load_recipe == RecipeFile

\* An event whose set() flips it.
EventToggle(e) == ~e

\* threading.Event.set() on self._stop_event, e being its value before:
\* the event is set, whatever it was.
EventSet(e) == TRUE

\* An admission test that only refuses a start while another start is in
\* progress.
StartAcceptedUnlessStarting(s) == s # "starting"

\* An admission test that also lets a stopped-on-error orchestrator start.
StartAcceptedFromError(s) == s \in {"idle", "error"}

\* start_monitoring's admission test: "if self.state != PrintManagerState.IDLE"
StartAccepted(s) == s = "idle"

\* The mapping m without key k and without the keys below it.
WithoutUpTo(m, k) == [l \in {x \in DOMAIN m : x > k} |-> m[l]]

\* The mapping m without key k (del self.recipe[k]).
Without(m, k) == [l \in DOMAIN m \ {k} |-> m[l]]

\* The layers of a sequence of material changes.
Layers(cs) == {cs[i].layer : i \in 1..Len(cs)}

\* The entries of a sequence.
Range(q) == {q[i] : i \in 1..Len(q)}

\* A recipe path for which load_recipe would never return False.
LoadNeverFails(path) == FALSE

\* load_recipe(recipe_path) returns False: the file does not exist or
\* cannot be read. (A file whose entries are all invalid loads as an empty
\* recipe and returns True.)
LoadFails(path) == path = "bad"

\* ------------------------------------------------------- external caller
\* PrintManager.start_monitoring(printer_ip, recipe_path), the whole call:
\* it runs under self._state_lock from its first line to its return.
\*   ip   : "none" (no override) or "arg"
\*   path : "none" (no recipe_path), "good" (loads) or "bad" (load fails)
\*   up   : whether Thread.start() succeeds
start_monitoring(ip, path, up) ==
    /\ UNCHANGED <<fileVars, hwVars>>
    /\ xpc = "x_idle"
    /\ lock = "free"
    /\ UNCHANGED <<xpc, lock, snapshot, recipe_active, quiescent, mlayer, mdone, mcmd,
                   cyc, last_event, sockVars, chanVars, printer>>
    /\ IF ~StartAccepted(state)
       THEN \* returns False
            /\ xret' = "start_rejected"
            /\ UNCHANGED <<state, recipe, printer_ip, last_processed_layer,
                           stop_event, estop_at, mpc, changes>>
       ELSE IF LoadFails(path)
       THEN \* load_recipe failed: returns False
            /\ state' = "error"
            /\ xret' = "start_load_failed"
            /\ UNCHANGED <<recipe, printer_ip, last_processed_layer,
                           stop_event, estop_at, mpc, changes>>
       ELSE /\ recipe' = IF path = "good" THEN load_recipe ELSE recipe
            /\ printer_ip' = IF ip = "arg" THEN "arg" ELSE printer_ip
            /\ stop_event' = FALSE
            /\ estop_at' = "none"
            /\ last_processed_layer' = None
            /\ IF up
               THEN \* returns True
                    /\ state' = "starting"
                    /\ mpc' = "m_start"
                    /\ changes' = <<>>
                    /\ xret' = "start_true"
               ELSE \* Thread.start() raised: returns False
                    /\ state' = "error"
                    /\ xret' = "start_failed"
                    /\ UNCHANGED <<mpc, changes>>

\* PrintManager.stop_monitoring up to the join: it takes self._state_lock
\* and keeps it while it waits in join(timeout=10.0). With the state idle,
\* or with no live thread, it returns True at once.
stop_monitoring ==
    /\ UNCHANGED <<fileVars, hwVars>>
    /\ xpc = "x_idle"
    /\ lock = "free"
    /\ UNCHANGED <<recipe, printer_ip, last_processed_layer, recipe_active,
                   quiescent, monVars, sockVars, chanVars, printer, snapshot>>
    /\ IF state = "idle"
       THEN /\ xret' = "stop_true"
            /\ UNCHANGED <<state, stop_event, estop_at, xpc, lock>>
       ELSE /\ stop_event' = EventSet(stop_event)
            /\ UNCHANGED estop_at
            /\ IF ThreadAlive
               THEN /\ state' = "stopping"
                    /\ xpc' = "x_join"
                    /\ lock' = "ext"
                    /\ UNCHANGED xret
               ELSE /\ state' = "idle"
                    /\ xret' = "stop_true"
                    /\ UNCHANGED <<xpc, lock>>

\* stop_monitoring: join returned because the thread ended; the state
\* becomes idle and the call returns True.
stop_join_done ==
    /\ UNCHANGED <<fileVars, hwVars>>
    /\ xpc = "x_join"
    /\ ~ThreadAlive
    /\ state' = "idle"
    /\ xpc' = "x_idle"
    /\ lock' = "free"
    /\ xret' = "stop_true"
    /\ UNCHANGED <<recipe, printer_ip, last_processed_layer, recipe_active,
                   stop_event, estop_at, quiescent, monVars, sockVars, chanVars,
                   printer, snapshot>>

\* stop_monitoring: join timed out with the thread still alive; the call
\* returns False and leaves the state stopping.
stop_join_timeout ==
    /\ UNCHANGED <<fileVars, hwVars>>
    /\ xpc = "x_join"
    /\ ThreadAlive
    /\ xpc' = "x_idle"
    /\ lock' = "free"
    /\ xret' = "stop_false"
    /\ UNCHANGED <<orchVars, monVars, sockVars, chanVars, printer, snapshot>>

\* The keys of a dictionary in ascending order: list(sorted(d.keys())).
RECURSIVE sorted(_)
sorted(S) ==
    IF S = {} THEN <<>>
    ELSE LET m == CHOOSE x \in S : \A y \in S : x <= y
         IN  <<m>> \o sorted(S \ {m})

\* PrintManager.get_current_state, first part: it takes self._state_lock and
\* evaluates the entries of the dictionary in order; "state" and
\* "recipe_count": len(self.recipe) have been evaluated.
get_current_state ==
    /\ UNCHANGED <<fileVars, hwVars>>
    /\ xpc = "x_idle"
    /\ lock = "free"
    /\ xpc' = "x_snapshot"
    /\ lock' = "ext"
    /\ snapshot' = [state |-> state,
                    recipe_count |-> Cardinality(DOMAIN recipe)]
    /\ UNCHANGED <<orchVars, monVars, sockVars, chanVars, printer, xret>>

\* The dictionary get_current_state returns, its last entries
\* ("last_processed_layer", "remaining_changes") being evaluated now.
get_current_state_result ==
    [state |-> snapshot.state,
     recipe_count |-> snapshot.recipe_count,
     last_processed_layer |-> last_processed_layer,
     remaining_changes |-> sorted(DOMAIN recipe)]

\* PrintManager.get_current_state, second part: the remaining entries are
\* evaluated, the lock is released and the dictionary goes to the caller.
get_current_state_end ==
    /\ UNCHANGED <<fileVars, hwVars>>
    /\ xpc = "x_snapshot"
    /\ xpc' = "x_idle"
    /\ lock' = "free"
    /\ xret' = "snapshot"
    /\ snapshot' = NoSnapshot
    /\ UNCHANGED <<orchVars, monVars, sockVars, chanVars, printer>>

\* ------------------------------------------------- command dispatch
\* Commands whose handler in _process_shared_command drives hardware: one
\* pump run (pump_control) or one printer request (pause/resume/stop_print).
PumpCmds == {"pump_control"}
PrinterCmds == {"pause_print", "resume_print", "stop_print"}
HardwareCmds == PumpCmds \cup PrinterCmds

\* mmu_control.run_pump_by_id raises on a motor id that is no string
\* (pump_id.upper()); nothing in _process_shared_command catches it.
RaisingCmds == {"pump_control_bad"}

\* WebSocketIPCClient.mark_command_processed(id): emit('command_result') goes
\* out only while connected; otherwise emit logs and returns False.
mark_command_processed(id) ==
    IF is_connected THEN [answered EXCEPT ![id] = @ + 1] ELSE answered

\* _process_shared_command, the branches that finish without hardware:
\* the new values of recipe, recipe_active and stop_event.
ProcessInstant(cmd) ==
    /\ recipe' = IF cmd.type = "start_multi_material" THEN load_recipe
                 ELSE recipe
    /\ recipe_active' =
           IF cmd.type = "start_multi_material" THEN TRUE
           ELSE IF cmd.type = "stop_multi_material" THEN FALSE
           ELSE recipe_active
    /\ stop_event' = IF cmd.type = "emergency_stop" THEN EventSet(stop_event)
                     ELSE stop_event
    /\ estop_at' = IF cmd.type = "emergency_stop" /\ ~stop_event THEN mpc
                   ELSE estop_at

\* The printer after it accepted a pause, resume or stop request
\* (printer_comms.pause_print, resume_print, stop_print): its operational
\* state changes, unless the print has finished.
Requested(p, m) == IF p.mode = "complete" THEN p ELSE [p EXCEPT !.mode = m]

\* A stop_print branch that leaves the recipe's activation alone.
ActiveAfterStopPrintKept(ok, active) == active

\* recipe_active after the stop_print branch, ok being the outcome of the
\* stop request: "if success: self._recipe_active = False".
ActiveAfterStopPrint(ok, active) == IF ok THEN FALSE ELSE active

\* _process_shared_command, the end of a hardware branch: the new values of
\* the printer and of recipe_active, ok being the outcome of the request.
ProcessHardwareEnd(cmd, ok) ==
    /\ printer' =
           IF ~ok \/ cmd.type \in PumpCmds THEN printer
           ELSE Requested(printer,
                     IF cmd.type = "pause_print" THEN "pause"
                     ELSE IF cmd.type = "resume_print" THEN "print"
                     ELSE "stop")
    /\ recipe_active' = IF cmd.type = "stop_print"
                        THEN ActiveAfterStopPrint(ok, recipe_active)
                        ELSE recipe_active

\* --------------------------------------------------------- socket thread
\* What the "command" event handler does with a received command besides
\* queueing it: "if self.on_command_received:
\* self.on_command_received(command_data)", the callback being
\* PrintManager._handle_websocket_command (set in PrintManager.__init__).
CallbackRuns == TRUE

\* WebSocketIPCClient "command" event: the command is put on command_queue
\* and handed to _handle_websocket_command, which starts
\* _process_shared_command in this thread. A branch without hardware runs
\* to its end and the result is sent; an exception is caught and answered
\* with success=False.
command(type) ==
    LET cmd == [id |-> nextId, type |-> type] IN
    /\ is_connected
    /\ cpc = "c_idle"
    /\ nextId <= MaxCmds
    /\ command_queue' = Append(command_queue, cmd)
    /\ nextId' = nextId + 1
    /\ UNCHANGED <<state, printer_ip, last_processed_layer, quiescent,
                   monVars, connected, printer, extVars, fileVars, hwVars>>
    /\ IF ~CallbackRuns
       THEN UNCHANGED <<recipe, recipe_active, stop_event, estop_at, sockVars,
                        handled, answered>>
       ELSE /\ handled' = [handled EXCEPT ![cmd.id] = @ + 1]
            /\ IF type \in HardwareCmds
               THEN /\ cpc' = "c_hw"
                    /\ ccmd' = cmd
                    /\ UNCHANGED <<recipe, recipe_active, stop_event, estop_at,
                                   answered>>
               ELSE /\ IF type \in RaisingCmds
                       THEN UNCHANGED <<recipe, recipe_active, stop_event, estop_at>>
                       ELSE ProcessInstant(cmd)
                    /\ answered' = mark_command_processed(cmd.id)
                    /\ UNCHANGED sockVars

\* _handle_websocket_command: the pump run or printer request of the
\* command returns, and the result is sent.
_handle_websocket_command_end(ok) ==
    /\ cpc = "c_hw"
    /\ ProcessHardwareEnd(ccmd, ok)
    /\ answered' = mark_command_processed(ccmd.id)
    /\ cpc' = "c_idle"
    /\ ccmd' = NoCmd
    /\ UNCHANGED <<state, recipe, printer_ip, last_processed_layer,
                   stop_event, estop_at, quiescent, monVars, connected, command_queue,
                   nextId, handled, extVars, fileVars, hwVars>>

\* The connection to the web application drops (socketio "disconnect"
\* event).
disconnect_event ==
    /\ connected
    /\ connected' = FALSE
    /\ UNCHANGED <<orchVars, monVars, sockVars, command_queue, nextId,
                   handled, answered, printer, extVars, fileVars, hwVars>>

\* -------------------------------------------------------------- printer
\* The status object a successful poll returns: what the printer shows.
\* total_layers is MaxLayer and percent_complete follows the layer.
StatusOf(p) == [status |-> p.mode, current_layer |-> p.layer,
                total_layers |-> MaxLayer,
                percent_complete |-> (p.layer * 100) \div MaxLayer]

\* PrintManager._extract_current_layer: the layer, or None unless it is > 0.
_extract_current_layer(st) ==
    IF st.current_layer > 0 THEN st.current_layer ELSE None

\* PrintManager._is_print_complete
_is_print_complete(st) ==
    \/ st.status \in {"complete", "finished", "done"}
    \/ st.status = "stop" /\ st.percent_complete >= 100
    \/ st.total_layers > 0 /\ st.current_layer >= st.total_layers
       /\ st.percent_complete >= 99

\* A trigger test that forgets which layer was handled last.
ChangeDueNoLast(layer) ==
    /\ recipe_active
    /\ layer \in DOMAIN recipe

\* A trigger test that does not look at the recipe's activation.
ChangeDueInactive(layer) ==
    /\ layer \in DOMAIN recipe
    /\ layer # last_processed_layer

\* _monitoring_loop's trigger test for a material change.
ChangeDue(layer) ==
    /\ recipe_active
    /\ layer \in DOMAIN recipe
    /\ layer # last_processed_layer

\* The print advances (only while printing; the layer counter never goes
\* back).
printer_advance ==
    /\ printer.mode = "print"
    /\ \E l \in (printer.layer + 1)..MaxLayer :
           printer' = [printer EXCEPT !.layer = l]
    /\ UNCHANGED <<orchVars, monVars, sockVars, chanVars, extVars, fileVars, hwVars>>

\* The print finishes after its last layer: the printer reports the
\* operational state complete, with the layer counter cleared to 0.
printer_finishes ==
    /\ printer.mode = "print"
    /\ printer.layer = MaxLayer
    /\ printer' = [mode |-> "complete", layer |-> 0]
    /\ UNCHANGED <<orchVars, monVars, sockVars, chanVars, extVars, fileVars, hwVars>>

\* Time passes the deadline self._quiescent_until.
quiescence_lapses ==
    /\ quiescent
    /\ quiescent' = FALSE
    /\ UNCHANGED <<state, recipe, printer_ip, last_processed_layer,
                   recipe_active, stop_event, estop_at, monVars, sockVars, chanVars,
                   printer, extVars, fileVars, hwVars>>

\* ---------------------------------------------------- monitoring thread
\* _monitoring_loop entry: "with self._state_lock: self.state = MONITORING",
\* then websocket_client.connect() (ok: the connection is established) and
\* the startup event.
loop_enter(ok) ==
    /\ mpc = "m_start"
    /\ lock = "free"
    /\ state' = "monitoring"
    /\ connected' = IF connected THEN TRUE ELSE ok
    /\ last_event' = Event("EXPERIMENT", "info")
    /\ mpc' = "m_top"
    /\ UNCHANGED <<recipe, printer_ip, last_processed_layer, recipe_active,
                   stop_event, estop_at, quiescent, mlayer, mdone, mcmd, cyc, changes,
                   sockVars, command_queue, nextId, handled, answered,
                   printer, extVars, fileVars, hwVars>>

\* A loop condition that never looks at the stop event.
LoopContinuesAlways == TRUE

\* _monitoring_loop's loop condition: "while not self._stop_event.is_set()"
\* (and the "if self._stop_event.wait(...): break" that ends an iteration).
LoopContinues == ~stop_event

\* _monitoring_loop: "while not self._stop_event.is_set()", then
\* get_next_command(timeout=0.1) while connected. The waits that end an
\* iteration (self._stop_event.wait(...)) lead here as well.
loop_top ==
    /\ mpc = "m_top"
    /\ mlayer' = None
    /\ mdone' = FALSE
    /\ last_event' = NoEvent
    /\ IF ~LoopContinues
       THEN /\ mpc' = "m_finally"
            /\ UNCHANGED <<mcmd, command_queue>>
       ELSE IF is_connected /\ command_queue # <<>>
       THEN /\ mcmd' = Head(command_queue)
            /\ command_queue' = Tail(command_queue)
            /\ mpc' = "m_exec"
       ELSE /\ mpc' = "m_poll"
            /\ UNCHANGED <<mcmd, command_queue>>
    /\ UNCHANGED <<orchVars, cyc, changes, sockVars, connected, nextId,
                   handled, answered, printer, extVars, fileVars, hwVars>>

\* _monitoring_loop: _process_shared_command(command_dict) starts. A branch
\* without hardware runs to its end and the result is sent; an exception
\* leaves the loop body before mark_command_processed.
loop_dispatch ==
    /\ mpc = "m_exec"
    /\ handled' = [handled EXCEPT ![mcmd.id] = @ + 1]
    /\ UNCHANGED <<state, printer_ip, last_processed_layer, quiescent, mlayer,
                   mdone, cyc, changes, last_event, sockVars, connected,
                   command_queue, nextId, printer, extVars, fileVars, hwVars>>
    /\ IF mcmd.type \in HardwareCmds
       THEN /\ mpc' = "m_exec_hw"
            /\ UNCHANGED <<recipe, recipe_active, stop_event, estop_at, mcmd, answered>>
       ELSE IF mcmd.type \in RaisingCmds
       THEN /\ mpc' = "m_except"
            /\ mcmd' = NoCmd
            /\ UNCHANGED <<recipe, recipe_active, stop_event, estop_at, answered>>
       ELSE /\ ProcessInstant(mcmd)
            /\ answered' = mark_command_processed(mcmd.id)
            /\ mpc' = "m_poll"
            /\ mcmd' = NoCmd

\* _monitoring_loop: the pump run or printer request of the command
\* returns, and the result is sent.
loop_dispatch_end(ok) ==
    /\ mpc = "m_exec_hw"
    /\ ProcessHardwareEnd(mcmd, ok)
    /\ answered' = mark_command_processed(mcmd.id)
    /\ mpc' = "m_poll"
    /\ mcmd' = NoCmd
    /\ UNCHANGED <<state, recipe, printer_ip, last_processed_layer,
                   stop_event, estop_at, quiescent, mlayer, mdone, cyc, changes,
                   last_event, sockVars, connected, command_queue, nextId,
                   handled, extVars, fileVars, hwVars>>

\* A loop that gives up when a poll returns no status.
AfterNoStatusFatal == "m_finally"

\* Where the loop goes when the poll gave no status: "if not
\* self._stop_event.wait(self.poll_interval): continue", else "break"; both
\* arrive at the loop's stop test.
AfterNoStatus == "m_top"

\* _monitoring_loop: the status poll starts unless the quiescent window is
\* open; inside the window a heartbeat is sent, status stays None and the
\* iteration ends with the "Printer disconnected" event and the wait.
loop_poll ==
    /\ mpc = "m_poll"
    /\ IF quiescent
       THEN /\ last_event' = Event("PRINTER_STATUS", "warning")
            /\ mpc' = AfterNoStatus
       ELSE /\ mpc' = "m_poll_wait"
            /\ UNCHANGED last_event
    /\ UNCHANGED <<orchVars, mlayer, mdone, mcmd, cyc, changes, sockVars,
                   chanVars, printer, extVars, fileVars, hwVars>>

\* Where the loop goes after the completion test of an iteration:
\* "if self._is_print_complete(status): ... break", else the wait.
AfterIteration(done) == IF done THEN "m_finally" ELSE "m_top"

\* _monitoring_loop: the poll returns. No status: "Printer disconnected",
\* wait, next iteration. A status without a usable layer: wait, next
\* iteration. Otherwise the layer event and the material change test; with
\* no change due, the completion test.
loop_poll_end(ok) ==
    /\ mpc = "m_poll_wait"
    /\ UNCHANGED <<state, recipe, printer_ip, last_processed_layer,
                   recipe_active, stop_event, estop_at, quiescent, mcmd, sockVars,
                   chanVars, printer, extVars, fileVars, hwVars>>
    /\ IF ~ok
       THEN /\ last_event' = Event("PRINTER_STATUS", "warning")
            /\ mpc' = AfterNoStatus
            /\ UNCHANGED <<mlayer, mdone, cyc, changes>>
       ELSE LET st == StatusOf(printer)
                layer == _extract_current_layer(st)
            IN  /\ mlayer' = layer
                /\ IF layer = None
                   THEN /\ last_event' = Event("PRINTER_STATUS", "info")
                        /\ mpc' = "m_top"
                        /\ UNCHANGED <<mdone, cyc, changes>>
                   ELSE /\ mdone' = _is_print_complete(st)
                        /\ IF ChangeDue(layer)
                           THEN /\ last_event' = Event("MATERIAL", "info")
                                /\ cyc' = <<>>
                                /\ changes' = Append(changes,
                                       [layer |-> layer,
                                        material |-> recipe[layer]])
                                /\ mpc' = "m_set_changing"
                           ELSE /\ last_event' =
                                       IF _is_print_complete(st)
                                       THEN Event("EXPERIMENT", "info")
                                       ELSE Event("PROGRESS", "info")
                                /\ mpc' = AfterIteration(_is_print_complete(st))
                                /\ UNCHANGED <<cyc, changes>>

\* What a step of the monitoring thread inside a material change leaves
\* alone, besides the variables it names.
ChangeFrame == UNCHANGED <<recipe, printer_ip, last_processed_layer,
                           recipe_active, mlayer, mdone, mcmd, changes,
                           sockVars, chanVars, extVars, fileVars, hwVars>>

\* _monitoring_loop: "with self._state_lock: self.state = MATERIAL_CHANGING"
loop_set_changing ==
    /\ mpc = "m_set_changing"
    /\ lock = "free"
    /\ state' = "material_changing"
    /\ mpc' = "m_pause"
    /\ UNCHANGED <<stop_event, estop_at, quiescent, cyc, last_event, printer>>
    /\ ChangeFrame

\* _handle_material_change step 1: _pause_printer sends the pause request.
_pause_printer ==
    /\ mpc = "m_pause"
    /\ mpc' = "m_pause_wait"
    /\ last_event' = Event("TIMING", "info")
    /\ UNCHANGED <<state, stop_event, estop_at, quiescent, cyc, printer>>
    /\ ChangeFrame

\* _pause_printer returns: on success the quiescent window opens; on failure
\* _handle_material_change reports the error and enters the error state.
_pause_printer_end(ok) ==
    /\ mpc = "m_pause_wait"
    /\ IF ok
       THEN /\ quiescent' = TRUE
            /\ printer' = Requested(printer, "pause")
            /\ cyc' = Append(cyc, "pause")
            /\ last_event' = Event("TIMING", "info")
            /\ mpc' = "m_bed_wait"
       ELSE /\ cyc' = Append(cyc, "pause_failed")
            /\ last_event' = Event("MATERIAL", "error")
            /\ mpc' = "m_enter_error"
            /\ UNCHANGED <<quiescent, printer>>
    /\ UNCHANGED <<state, stop_event, estop_at>>
    /\ ChangeFrame

\* _handle_material_change step 2: _wait_for_bed_raised. The wait returns
\* at once when the stop event is set ("if self._stop_event.wait(1.0):
\* return"), and _handle_material_change goes on to the pump sequence;
\* otherwise it ends with a status poll that verifies the pause.
_wait_for_bed_raised ==
    /\ mpc = "m_bed_wait"
    /\ IF stop_event
       THEN /\ cyc' = Append(cyc, "bed_wait_interrupted")
            /\ mpc' = "m_drain"
       ELSE /\ mpc' = "m_verify_wait"
            /\ UNCHANGED cyc
    /\ last_event' = Event("TIMING", "info")
    /\ UNCHANGED <<state, stop_event, estop_at, quiescent, printer>>
    /\ ChangeFrame

\* _wait_for_bed_raised: the verifying poll returns (a mismatch or a failed
\* poll is only a warning), then the 3 s safety buffer.
_wait_for_bed_raised_end(ok) ==
    /\ mpc = "m_verify_wait"
    /\ cyc' = Append(cyc, "bed_wait")
    /\ last_event' = Event("TIMING", IF ok /\ printer.mode = "pause"
                                     THEN "info" ELSE "warning")
    /\ mpc' = "m_drain"
    /\ UNCHANGED <<state, stop_event, estop_at, quiescent, printer>>
    /\ ChangeFrame

\* MMUController.change_material step 1: the drain pump starts.
change_material_drain ==
    /\ mpc = "m_drain"
    /\ mpc' = "m_drain_wait"
    /\ last_event' = Event("TIMING", "info")
    /\ UNCHANGED <<state, stop_event, estop_at, quiescent, cyc, printer>>
    /\ ChangeFrame

\* A pump sequence that gives up after the drain when the stop event is
\* set.
AfterDrainUnlessStopped(ok) ==
    IF ok /\ ~stop_event THEN "m_fill" ELSE "m_enter_error"

\* A pump sequence that starts the fill whatever the drain returned.
AfterDrainRegardless(ok) == "m_fill"

\* Where change_material goes when the drain pump returned: "if not
\* self.run_pump_volume("drain_pump", ...): return False", else the fill.
AfterDrain(ok) == IF ok THEN "m_fill" ELSE "m_enter_error"

\* change_material: the drain pump returns; failure returns False to
\* _handle_material_change ("Pump sequence failed").
change_material_drain_end(ok) ==
    /\ mpc = "m_drain_wait"
    /\ cyc' = Append(cyc, IF ok THEN "drain" ELSE "drain_failed")
    /\ last_event' = IF AfterDrain(ok) = "m_fill" THEN last_event
                     ELSE Event("MATERIAL", "error")
    /\ mpc' = AfterDrain(ok)
    /\ UNCHANGED <<state, stop_event, estop_at, quiescent, printer>>
    /\ ChangeFrame

\* change_material step 2: the fill pump of the target material starts.
change_material_fill ==
    /\ mpc = "m_fill"
    /\ mpc' = "m_fill_wait"
    /\ UNCHANGED <<state, stop_event, estop_at, quiescent, cyc, last_event, printer>>
    /\ ChangeFrame

\* A sequencer that goes on to step 4 whatever the pump sequence returned.
AfterFillAlwaysResume(ok) == "m_resume"

\* Where _handle_material_change goes with the result of change_material
\* once the fill pump returned: "if not self.run_pump_volume(pump_name,
\* ...): return False" makes the sequencer report "Pump sequence failed",
\* enter the error state and return before step 4; success leads to step 4.
AfterFill(ok) == IF ok THEN "m_resume" ELSE "m_enter_error"

\* change_material: the fill pump returns; on success the settle wait
\* follows and change_material returns True.
change_material_fill_end(ok) ==
    /\ mpc = "m_fill_wait"
    /\ IF ok
       THEN /\ cyc' = cyc \o <<"fill", "settle">>
            /\ last_event' = Event("TIMING", "info")
       ELSE /\ cyc' = Append(cyc, "fill_failed")
            /\ last_event' = Event("MATERIAL", "error")
    /\ mpc' = AfterFill(ok)
    /\ UNCHANGED <<state, stop_event, estop_at, quiescent, printer>>
    /\ ChangeFrame

\* _handle_material_change step 4: _resume_printer waits while the window
\* is open and the stop event is clear ("while time.time() <
\* self._quiescent_until and not self._stop_event.wait(0.25)"), then sends
\* the resume request.
_resume_printer ==
    /\ mpc = "m_resume"
    /\ ~quiescent \/ stop_event
    /\ cyc' = Append(cyc, "resume_sent")
    /\ mpc' = "m_resume_wait"
    /\ UNCHANGED <<state, stop_event, estop_at, quiescent, last_event, printer>>
    /\ ChangeFrame

\* _resume_printer returns: success clears the window; failure is reported
\* and the error state entered.
_resume_printer_end(ok) ==
    /\ mpc = "m_resume_wait"
    /\ IF ok
       THEN /\ quiescent' = FALSE
            /\ printer' = Requested(printer, "print")
            /\ cyc' = Append(cyc, "resumed")
            /\ last_event' = Event("MATERIAL", "info")
            /\ mpc' = "m_change_ok"
       ELSE /\ cyc' = Append(cyc, "resume_failed")
            /\ last_event' = Event("MATERIAL", "error")
            /\ mpc' = "m_enter_error"
            /\ UNCHANGED <<quiescent, printer>>
    /\ UNCHANGED <<state, stop_event, estop_at>>
    /\ ChangeFrame

\* PrintManager._enter_error_state, called by _handle_material_change on
\* every failure before it returns False.
_enter_error_state ==
    /\ mpc = "m_enter_error"
    /\ lock = "free"
    /\ state' = "error"
    /\ stop_event' = EventSet(stop_event)
    /\ UNCHANGED estop_at
    /\ last_event' = Event("SYSTEM", "error")
    /\ mpc' = "m_change_failed"
    /\ UNCHANGED <<quiescent, cyc, printer>>
    /\ ChangeFrame

\* _monitoring_loop after _handle_material_change returned True: the layer
\* is recorded and removed from the recipe ("del self.recipe[current_layer]"
\* raises KeyError when the entry is gone).
loop_change_ok ==
    /\ mpc = "m_change_ok"
    /\ last_processed_layer' = mlayer
    /\ IF mlayer \in DOMAIN recipe
       THEN /\ recipe' = Without(recipe, mlayer)
            /\ last_event' = Event("MATERIAL", "info")
            /\ mpc' = "m_set_monitoring"
       ELSE /\ mpc' = "m_except"
            /\ UNCHANGED <<recipe, last_event>>
    /\ UNCHANGED <<state, printer_ip, recipe_active, stop_event, estop_at, quiescent,
                   mlayer, mdone, mcmd, cyc, changes, sockVars, chanVars,
                   printer, extVars, fileVars, hwVars>>

\* A loop that records only the layers whose change succeeded.
LayerAfterFailedChangeKept(layer) == last_processed_layer

\* What the loop records after a failed change: "self._last_processed_layer
\* = current_layer".
LayerAfterFailedChange(layer) == layer

\* _monitoring_loop after _handle_material_change returned False: the
\* "FAILED" event, and the layer is recorded.
loop_change_failed ==
    /\ mpc = "m_change_failed"
    /\ last_event' = Event("MATERIAL", "error")
    /\ last_processed_layer' = LayerAfterFailedChange(mlayer)
    /\ mpc' = "m_set_monitoring"
    /\ UNCHANGED <<state, recipe, printer_ip, recipe_active, stop_event, estop_at,
                   quiescent, mlayer, mdone, mcmd, cyc, changes, sockVars,
                   chanVars, printer, extVars, fileVars, hwVars>>

\* _monitoring_loop: "with self._state_lock: self.state = MONITORING" after
\* either outcome of the change, then the completion test.
loop_set_monitoring ==
    /\ mpc = "m_set_monitoring"
    /\ lock = "free"
    /\ state' = "monitoring"
    /\ last_event' = IF mdone THEN Event("EXPERIMENT", "info") ELSE last_event
    /\ mpc' = AfterIteration(mdone)
    /\ UNCHANGED <<stop_event, estop_at, quiescent, cyc, printer>>
    /\ ChangeFrame

\* _monitoring_loop "except Exception": the error event, then
\* "with self._state_lock: self.state = ERROR".
loop_except ==
    /\ mpc = "m_except"
    /\ lock = "free"
    /\ last_event' = Event("EXPERIMENT", "error")
    /\ state' = "error"
    /\ mpc' = "m_finally"
    /\ UNCHANGED <<recipe, printer_ip, last_processed_layer, recipe_active,
                   stop_event, estop_at, quiescent, mlayer, mdone, mcmd, cyc, changes,
                   sockVars, chanVars, printer, extVars, fileVars, hwVars>>

\* _monitoring_loop "finally": websocket_client.disconnect(), which acts
\* only while connected.
loop_finally ==
    /\ mpc = "m_finally"
    /\ connected' = FALSE
    /\ mpc' = "m_final_lock"
    /\ UNCHANGED <<orchVars, mlayer, mdone, mcmd, cyc, changes, last_event,
                   sockVars, command_queue, nextId, handled, answered,
                   printer, extVars, fileVars, hwVars>>

\* The state the exit path leaves: "if self.state != PrintManagerState.ERROR:
\* self.state = PrintManagerState.IDLE".
FinalState(s) == IF s # "error" THEN "idle" ELSE s

\* _monitoring_loop "finally": "with self._state_lock: if self.state !=
\* ERROR: self.state = IDLE".
loop_final_lock ==
    /\ mpc = "m_final_lock"
    /\ lock = "free"
    /\ state' = FinalState(state)
    /\ mpc' = "m_exit"
    /\ UNCHANGED <<recipe, printer_ip, last_processed_layer, recipe_active,
                   stop_event, estop_at, quiescent, mlayer, mdone, mcmd, cyc, changes,
                   last_event, sockVars, chanVars, printer, extVars, fileVars, hwVars>>

\* The thread function returns: the thread is no longer alive, and its
\* locals are gone.
loop_exit ==
    /\ mpc = "m_exit"
    /\ mpc' = "none"
    /\ mlayer' = None
    /\ mdone' = FALSE
    /\ cyc' = <<>>
    /\ last_event' = NoEvent
    /\ UNCHANGED <<orchVars, mcmd, changes, sockVars, chanVars, printer,
                   extVars, fileVars, hwVars>>

\* ------------------------------------------------------------ recipe file
\* Text is a sequence of one-character strings. Python's string operations,
\* on the characters that occur in the texts of the model.

\* str.strip(): leading and trailing blanks are removed.
RECURSIVE strip(_)
strip(t) ==
    IF t = <<>> THEN t
    ELSE IF Head(t) = " " THEN strip(Tail(t))
    ELSE IF t[Len(t)] = " " THEN strip(SubSeq(t, 1, Len(t) - 1))
    ELSE t

\* str.upper()
upper(t) ==
    [i \in 1..Len(t) |->
        CASE t[i] = "a" -> "A"
          [] t[i] = "b" -> "B"
          [] t[i] = "c" -> "C"
          [] t[i] = "d" -> "D"
          [] t[i] = "e" -> "E"
          [] t[i] = "x" -> "X"
          [] OTHER -> t[i]]

\* "sep in t"
Contains(t, sep) == \E i \in 1..Len(t) : t[i] = sep

\* t.find(sep) + 1, for a text that contains sep
IndexOf(t, sep) ==
    CHOOSE i \in 1..Len(t) : t[i] = sep /\ \A j \in 1..(i - 1) : t[j] # sep

\* t.split(sep, 1) of a text that contains sep: the parts before and after
\* its first occurrence.
split1(t, sep) ==
    <<SubSeq(t, 1, IndexOf(t, sep) - 1),
      SubSeq(t, IndexOf(t, sep) + 1, Len(t))>>

\* t.split(sep): always at least one part.
RECURSIVE split(_, _)
split(t, sep) ==
    IF ~Contains(t, sep) THEN <<t>>
    ELSE <<split1(t, sep)[1]>> \o split(split1(t, sep)[2], sep)

\* sep.join(ts)
RECURSIVE join(_, _)
join(ts, sep) ==
    IF ts = <<>> THEN <<>>
    ELSE IF Len(ts) = 1 THEN ts[1]
    ELSE ts[1] \o <<sep>> \o join(Tail(ts), sep)

Digits == {"0", "1", "2", "3", "4", "5", "6", "7", "8", "9"}

DigitValue(c) ==
    CASE c = "0" -> 0 [] c = "1" -> 1 [] c = "2" -> 2 [] c = "3" -> 3
      [] c = "4" -> 4 [] c = "5" -> 5 [] c = "6" -> 6 [] c = "7" -> 7
      [] c = "8" -> 8 [] c = "9" -> 9

DigitChar(d) ==
    CASE d = 0 -> "0" [] d = 1 -> "1" [] d = 2 -> "2" [] d = 3 -> "3"
      [] d = 4 -> "4" [] d = 5 -> "5" [] d = 6 -> "6" [] d = 7 -> "7"
      [] d = 8 -> "8" [] d = 9 -> "9"

\* The digits of int(t) after blanks and a sign have been taken off.
Unsigned(t) ==
    IF strip(t) # <<>> /\ Head(strip(t)) \in {"+", "-"}
    THEN Tail(strip(t)) ELSE strip(t)

\* int(t) does not raise ValueError: blanks around, an optional sign, then
\* one or more digits.
ParsesAsInt(t) ==
    /\ Unsigned(t) # <<>>
    /\ \A i \in 1..Len(Unsigned(t)) : Unsigned(t)[i] \in Digits

\* The value of a sequence of digits.
RECURSIVE DigitsValue(_)
DigitsValue(ds) ==
    IF ds = <<>> THEN 0
    ELSE 10 * DigitsValue(SubSeq(ds, 1, Len(ds) - 1)) + DigitValue(ds[Len(ds)])

\* int(t), for a text that parses
int(t) ==
    IF Head(strip(t)) = "-" THEN 0 - DigitsValue(Unsigned(t))
    ELSE DigitsValue(Unsigned(t))

\* str(n) of a natural number
RECURSIVE NatStr(_)
NatStr(n) ==
    IF n < 10 THEN <<DigitChar(n)>>
    ELSE NatStr(n \div 10) \o <<DigitChar(n % 10)>>

\* str(n), as an f-string formats an int
str(n) == IF n < 0 THEN <<"-">> \o NatStr(0 - n) ELSE NatStr(n)

\* load_recipe: valid_materials = ['A', 'B', 'C', 'D']
valid_materials == {<<"A">>, <<"B">>, <<"C">>, <<"D">>}

\* A layer test that lets layer 0 pass.
LayerAcceptedFromZero(layer) == layer >= 0

\* load_recipe: "if layer <= 0: ... continue"
LayerAccepted(layer) == layer > 0

\* load_recipe, the body of its loop for one pair: the recipe after it.
\* The pair is skipped without a comma, with a material that is not valid
\* after strip and upper, and with a layer that is no integer or not
\* accepted; otherwise "self.recipe[layer] = material".
load_recipe_pair(rec, pair) ==
    IF ~Contains(pair, ",") THEN rec
    ELSE LET material == upper(strip(split1(pair, ",")[1]))
             layer_str == strip(split1(pair, ",")[2])
         IN  IF material \notin valid_materials THEN rec
             ELSE IF ~ParsesAsInt(layer_str) THEN rec
             ELSE IF ~LayerAccepted(int(layer_str)) THEN rec
             ELSE [l \in DOMAIN rec \cup {int(layer_str)} |->
                      IF l = int(layer_str) THEN material[1] ELSE rec[l]]

\* load_recipe on the recipe file as such, up to its loop: the text is read
\* and stripped; an empty text gives the empty recipe and True; otherwise
\* "self.recipe = {}" and the pairs are split off.
load_recipe_begin ==
    /\ lpc = "l_idle"
    /\ recipe' = NoRecipe
    /\ IF strip(recipe_text) = <<>>
       THEN /\ lpc' = "l_done"
            /\ UNCHANGED pairs
       ELSE /\ pairs' = split(strip(recipe_text), ":")
            /\ lpc' = "l_loop"
    /\ UNCHANGED <<state, printer_ip, last_processed_layer, recipe_active,
                   stop_event, estop_at, quiescent, monVars, sockVars,
                   chanVars, printer, extVars, recipe_text, resaved, hwVars>>

\* load_recipe: one turn of "for i, pair in enumerate(pairs)".
load_recipe_next ==
    /\ lpc = "l_loop"
    /\ pairs # <<>>
    /\ recipe' = load_recipe_pair(recipe, Head(pairs))
    /\ pairs' = Tail(pairs)
    /\ UNCHANGED <<state, printer_ip, last_processed_layer, recipe_active,
                   stop_event, estop_at, quiescent, monVars, sockVars,
                   chanVars, printer, extVars, recipe_text, lpc, resaved,
                   hwVars>>

\* load_recipe: the loop is over, the summary is logged, True is returned.
load_recipe_end ==
    /\ lpc = "l_loop"
    /\ pairs = <<>>
    /\ lpc' = "l_done"
    /\ UNCHANGED <<orchVars, monVars, sockVars, chanVars, printer, extVars,
                   recipe_text, pairs, resaved, hwVars>>

\* Web application, parse_recipe's loop over the entries: an entry without
\* a comma is passed over; material.strip() and int(layer.strip()) make an
\* item; a ValueError of int() ends the loop with the items made so far.
RECURSIVE parse_entries(_)
parse_entries(entries) ==
    IF entries = <<>> THEN <<>>
    ELSE IF ~Contains(Head(entries), ",") THEN parse_entries(Tail(entries))
    ELSE IF ~ParsesAsInt(split1(Head(entries), ",")[2]) THEN <<>>
    ELSE <<[material |-> strip(split1(Head(entries), ",")[1]),
            layer |-> int(split1(Head(entries), ",")[2])]>>
         \o parse_entries(Tail(entries))

\* sorted(recipe, key=lambda x: x['layer']): ascending and stable.
RECURSIVE sorted_by_layer(_)
sorted_by_layer(items) ==
    IF items = <<>> THEN <<>>
    ELSE LET rest == sorted_by_layer(SubSeq(items, 1, Len(items) - 1))
             last == items[Len(items)]
             n == Cardinality({i \in 1..Len(rest) :
                                  rest[i].layer <= last.layer})
         IN  SubSeq(rest, 1, n) \o <<last>> \o SubSeq(rest, n + 1, Len(rest))

\* Web application, parse_recipe(recipe_text)
parse_recipe(t) ==
    IF t = <<>> THEN <<>>
    ELSE sorted_by_layer(parse_entries(split(t, ":")))

\* An item written layer first.
ItemTextLayerFirst(item) == str(item.layer) \o <<",">> \o item.material

\* Web application, save_recipe: f"{item['material']},{item['layer']}"
ItemText(item) == item.material \o <<",">> \o str(item.layer)

\* Web application, save_recipe: the text written to the file.
save_recipe(recipe_data) ==
    join([i \in 1..Len(recipe_data) |-> ItemText(recipe_data[i])], ":")

\* Web application: the recipe page loads the file (load_recipe: the text
\* stripped, then parse_recipe) and saves what it loaded (api_save_recipe,
\* save_recipe). The controller loads the file again afterwards.
api_save_recipe ==
    /\ lpc = "l_done"
    /\ ~resaved.done
    /\ resaved' = [text |-> recipe_text, recipe |-> recipe, done |-> TRUE]
    /\ recipe_text' = save_recipe(parse_recipe(strip(recipe_text)))
    /\ lpc' = "l_idle"
    /\ UNCHANGED <<orchVars, monVars, sockVars, chanVars, printer, extVars,
                   pairs, hwVars>>

\* ------------------------------------------------------------ printer link
\* PrinterCommunicator._run_printer_command, attempt by attempt.

\* The commands get_status, pause_print, resume_print and stop_print send.
LinkCommands == {"getstatus", "gopause", "goresume", "gostop,end"}

\* What uart.send_request does in one attempt: it returns the responses, it
\* raises ConnectionException, or it raises another exception.
AttemptOutcomes == {"reply", "connection_error", "other_error"}

\* A loop that allows a fourth attempt.
AttemptAllowedFour(n) == n < 4

\* "for attempt in range(3)": another attempt is made after n attempts.
AttemptAllowed(n) == n < 3

\* All variables but link.
LinkFrame == UNCHANGED <<orchVars, monVars, sockVars, chanVars, printer,
                         extVars, fileVars, pumprun, mmu, cmdres>>

\* _run_printer_command(command) is called, request being the command.
_run_printer_command(request) ==
    /\ link.pc \in {"r_idle", "r_returned", "r_raised", "r_error"}
    /\ link.requests < MaxRequests
    /\ link' = [pc |-> "r_send", command |-> request, outcomes |-> <<>>,
                requests |-> link.requests + 1]
    /\ LinkFrame

\* One turn of the loop: UartWifi(...).send_request(command). A reply is
\* joined and returned; ConnectionException leads to the sleep; any other
\* exception leaves the function at once.
send_request(outcome) ==
    /\ link.pc = "r_send"
    /\ AttemptAllowed(Len(link.outcomes))
    /\ link' = [link EXCEPT
                  !.outcomes = Append(@, outcome),
                  !.pc = CASE outcome = "reply" -> "r_returned"
                           [] outcome = "connection_error" -> "r_sleep"
                           [] OTHER -> "r_error"]
    /\ LinkFrame

\* "except ConnectionException: time.sleep(1); continue"
retry_sleep ==
    /\ link.pc = "r_sleep"
    /\ link' = [link EXCEPT !.pc = "r_send"]
    /\ LinkFrame

\* The loop is exhausted: raise ConnectionException("Failed to send command
\* after 3 attempts.").
raise_connection_failure ==
    /\ link.pc = "r_send"
    /\ ~AttemptAllowed(Len(link.outcomes))
    /\ link' = [link EXCEPT !.pc = "r_raised"]
    /\ LinkFrame

\* ------------------------------------------------------------- pump volume
\* MMUController.run_pump_volume and run_pump for one pump run. Volumes are
\* in ml; flow rates are in tenths of ml/s (25 is 2.5 ml/s), so a duration of
\* volume_ml / flow_rate seconds is the fraction (10 * volume_ml) / flow_rate.

\* flow_rate_ml_per_second of the pumps of the default configuration: 2.5
\* (pump_a, pump_b, pump_c) and 5.0 (drain_pump).
FlowRates == {25, 50}

\* duration_seconds = volume_ml / flow_rate, as a fraction in seconds.
Duration(volume, flow) == [num |-> 10 * volume, den |-> flow]

\* int(x) of a fraction that is not negative: its whole part.
IntOf(x) == x.num \div x.den

\* All variables but pumprun.
PumpFrame == UNCHANGED <<orchVars, monVars, sockVars, chanVars, printer,
                         extVars, fileVars, link, mmu, cmdres>>

\* run_pump_volume(pump_name, direction, volume_ml) up to its call of
\* run_pump: the flow rate of the pump is looked up and the duration is
\* computed.
run_pump_volume ==
    /\ pumprun.pc = "v_idle"
    /\ pumprun' = [pumprun EXCEPT !.pc = "v_computed"]
    /\ PumpFrame

\* run_pump(pump_name, direction, duration_seconds):
\* "run_stepper(motor_id, direction_code, int(duration_seconds))", which
\* steps the motor until usr_time seconds have passed.
run_pump ==
    /\ pumprun.pc = "v_computed"
    /\ pumprun' = [pumprun EXCEPT
                     !.pc = "v_running",
                     !.usr_time = IntOf(Duration(pumprun.volume_ml,
                                                 pumprun.flow_rate))]
    /\ PumpFrame

\* run_stepper returns, run_pump and run_pump_volume return True.
run_pump_done ==
    /\ pumprun.pc = "v_running"
    /\ pumprun' = [pumprun EXCEPT !.pc = "v_done"]
    /\ PumpFrame

\* ------------------------------------------------------ air-assist valve
\* MMUController.change_material taken by itself, with the solenoid section
\* of the pump profile file as input.

\* change_material(target_material) is called with a valid material: the
\* parameters and the solenoid settings are read.
change_material(enabled, pre, post) ==
    /\ mmu.pc \in {"s_idle", "s_returned"}
    /\ mmu' = [pc |-> IF enabled THEN "s_activate" ELSE "s_drain",
               enabled |-> enabled, pre_delay |-> pre, post_delay |-> post,
               valve |-> mmu.valve, result |-> "none"]
    /\ UNCHANGED <<orchVars, monVars, sockVars, chanVars, printer,
                   extVars, fileVars, link, pumprun, cmdres>>

\* solenoid_control.activate_solenoid: GPIO.output(HIGH) opens the valve;
\* when the GPIO call raises, the function returns False, which
\* change_material does not look at.
activate_solenoid(ok) ==
    /\ mmu.pc = "s_activate"
    /\ mmu' = [mmu EXCEPT !.pc = "s_pre_delay",
                          !.valve = IF ok THEN "open" ELSE @]
    /\ UNCHANGED <<orchVars, monVars, sockVars, chanVars, printer,
                   extVars, fileVars, link, pumprun, cmdres>>

\* change_material: "time.sleep(pre_delay)", which raises ValueError for a
\* negative delay; an exception goes to the
\* "except Exception" of change_material, which returns False.
pre_drain_delay ==
    /\ mmu.pc = "s_pre_delay"
    /\ mmu' = IF mmu.pre_delay < 0
              THEN [mmu EXCEPT !.pc = "s_returned", !.result = "False"]
              ELSE [mmu EXCEPT !.pc = "s_drain"]
    /\ UNCHANGED <<orchVars, monVars, sockVars, chanVars, printer,
                   extVars, fileVars, link, pumprun, cmdres>>

\* change_material: the drain pump returns. On failure the valve is closed
\* (if the solenoid is enabled) before False is returned; on success the
\* post-drain delay follows (if enabled), else the fill.
run_drain(ok) ==
    /\ mmu.pc = "s_drain"
    /\ mmu' = IF ok
              THEN [mmu EXCEPT !.pc = IF mmu.enabled THEN "s_post_delay"
                                      ELSE "s_fill"]
              ELSE IF mmu.enabled
              THEN [mmu EXCEPT !.pc = "s_deactivate_failed"]
              ELSE [mmu EXCEPT !.pc = "s_returned", !.result = "False"]
    /\ UNCHANGED <<orchVars, monVars, sockVars, chanVars, printer,
                   extVars, fileVars, link, pumprun, cmdres>>

\* change_material: "time.sleep(post_delay)" after a successful drain.
post_drain_delay ==
    /\ mmu.pc = "s_post_delay"
    /\ mmu' = IF mmu.post_delay < 0
              THEN [mmu EXCEPT !.pc = "s_returned", !.result = "False"]
              ELSE [mmu EXCEPT !.pc = "s_deactivate"]
    /\ UNCHANGED <<orchVars, monVars, sockVars, chanVars, printer,
                   extVars, fileVars, link, pumprun, cmdres>>

\* solenoid_control.deactivate_solenoid: GPIO.output(LOW) closes the valve;
\* when the GPIO call raises, the function returns False, which
\* change_material does not look at. After a failed drain change_material
\* returns False, after the post-drain delay it goes on to the fill.
deactivate_solenoid(ok) ==
    /\ mmu.pc \in {"s_deactivate_failed", "s_deactivate"}
    /\ mmu' = IF mmu.pc = "s_deactivate"
              THEN [mmu EXCEPT !.pc = "s_fill",
                               !.valve = IF ok THEN "closed" ELSE @]
              ELSE [mmu EXCEPT !.pc = "s_returned", !.result = "False",
                               !.valve = IF ok THEN "closed" ELSE @]
    /\ UNCHANGED <<orchVars, monVars, sockVars, chanVars, printer,
                   extVars, fileVars, link, pumprun, cmdres>>

\* change_material: the fill pump runs and returns; failure returns False.
run_fill(ok) ==
    /\ mmu.pc = "s_fill"
    /\ mmu' = IF ok
              THEN [mmu EXCEPT !.pc = "s_settle"]
              ELSE [mmu EXCEPT !.pc = "s_returned", !.result = "False"]
    /\ UNCHANGED <<orchVars, monVars, sockVars, chanVars, printer,
                   extVars, fileVars, link, pumprun, cmdres>>

\* change_material: the settle time, then True is returned.
settle ==
    /\ mmu.pc = "s_settle"
    /\ mmu' = [mmu EXCEPT !.pc = "s_returned", !.result = "True"]
    /\ UNCHANGED <<orchVars, monVars, sockVars, chanVars, printer,
                   extVars, fileVars, link, pumprun, cmdres>>

\* ------------------------------------------------------- command results
\* _process_shared_command for one pause_print, resume_print, stop_print or
\* pump_control command taken by itself, up to the command_result that is
\* sent for it.

\* An exception of the delegated operation leaves _process_shared_command:
\* the printer branches catch it ("except Exception as e:" with an error
\* event), the pump_control branch has no try.
Propagates(type, outcome) == type \in PumpCmds /\ outcome = "raised"

\* The value _process_shared_command returns for these branches: none of
\* them returns, so the function ends with its default "return True".
ReturnValue(type, outcome) == TRUE

\* _process_shared_command(command) is entered for a hardware command.
_process_shared_command(thread, type) ==
    /\ cmdres.pc \in {"p_idle", "p_answered", "p_unanswered"}
    /\ cmdres' = [pc |-> "p_called", thread |-> thread, type |-> type,
                  outcome |-> "none", success |-> "none"]
    /\ UNCHANGED <<orchVars, monVars, sockVars, chanVars, printer,
                   extVars, fileVars, link, pumprun, mmu>>

\* The branch of the command makes its printer request or pump run (or
\* finds that it cannot) and emits the status event of the outcome.
delegated_operation(outcome) ==
    /\ cmdres.pc = "p_called"
    /\ cmdres' = [cmdres EXCEPT !.pc = "p_delegated", !.outcome = outcome]
    /\ UNCHANGED <<orchVars, monVars, sockVars, chanVars, printer,
                   extVars, fileVars, link, pumprun, mmu>>

\* _process_shared_command returns or raises.
_process_shared_command_end ==
    /\ cmdres.pc = "p_delegated"
    /\ cmdres' = IF Propagates(cmdres.type, cmdres.outcome)
                 THEN [cmdres EXCEPT !.pc = "p_raised"]
                 ELSE [cmdres EXCEPT
                         !.pc = "p_returned",
                         !.success = IF ReturnValue(cmdres.type, cmdres.outcome)
                                     THEN "True" ELSE "False"]
    /\ UNCHANGED <<orchVars, monVars, sockVars, chanVars, printer,
                   extVars, fileVars, link, pumprun, mmu>>

\* The caller sends the result: mark_command_processed(command_id,
\* success=success, ...). After an exception the receive callback sends
\* success=False; in the monitoring loop the exception leaves the loop body
\* and no result is sent.
command_result ==
    /\ cmdres.pc \in {"p_returned", "p_raised"}
    /\ cmdres' = IF cmdres.pc = "p_returned"
                 THEN [cmdres EXCEPT !.pc = "p_answered"]
                 ELSE IF cmdres.thread = "socket"
                 THEN [cmdres EXCEPT !.pc = "p_answered", !.success = "False"]
                 ELSE [cmdres EXCEPT !.pc = "p_unanswered"]
    /\ UNCHANGED <<orchVars, monVars, sockVars, chanVars, printer,
                   extVars, fileVars, link, pumprun, mmu>>

\* ---------------------------------------------------------- specification
\* A step of the monitoring thread.
MonStep ==
    \/ \E ok \in BOOLEAN : loop_enter(ok)
    \/ loop_top
    \/ loop_dispatch
    \/ \E ok \in BOOLEAN : loop_dispatch_end(ok)
    \/ loop_poll
    \/ \E ok \in BOOLEAN : loop_poll_end(ok)
    \/ loop_set_changing
    \/ _pause_printer
    \/ \E ok \in BOOLEAN : _pause_printer_end(ok)
    \/ _wait_for_bed_raised
    \/ \E ok \in BOOLEAN : _wait_for_bed_raised_end(ok)
    \/ change_material_drain
    \/ \E ok \in BOOLEAN : change_material_drain_end(ok)
    \/ change_material_fill
    \/ \E ok \in BOOLEAN : change_material_fill_end(ok)
    \/ _resume_printer
    \/ \E ok \in BOOLEAN : _resume_printer_end(ok)
    \/ _enter_error_state
    \/ loop_change_ok
    \/ loop_change_failed
    \/ loop_set_monitoring
    \/ loop_except
    \/ loop_finally
    \/ loop_final_lock
    \/ loop_exit

\* The steps of the external caller, the printer and the clock.
EnvStep ==
    \/ \E ip \in {"none", "arg"}, path \in {"none", "good", "bad"},
          up \in BOOLEAN : start_monitoring(ip, path, up)
    \/ stop_monitoring
    \/ stop_join_done
    \/ stop_join_timeout
    \/ disconnect_event
    \/ printer_advance
    \/ printer_finishes
    \/ quiescence_lapses

Next ==
    \/ EnvStep
    \/ \E t \in CmdTypes : command(t)
    \/ \E ok \in BOOLEAN : _handle_websocket_command_end(ok)
    \/ MonStep

Spec == Init /\ [][Next]_vars

\* The same program under the scheduling the threads get: the monitoring
\* thread keeps running (a thread that is ready is scheduled, every pump
\* run and printer request returns, and a blocked acquire of _state_lock
\* is granted once the lock has been released: strong fairness, the lock
\* being taken again and again by new stop calls), join(timeout=10.0)
\* returns when its timeout has passed, and the quiescent window lapses.
FairSpec ==
    /\ Init
    /\ [][Next]_vars
    /\ SF_vars(MonStep)
    /\ WF_vars(stop_join_timeout)
    /\ WF_vars(stop_join_done)
    /\ WF_vars(quiescence_lapses)

\* The orchestrator between two runs, the web application having activated
\* the recipe during the earlier one (start_multi_material loads the
\* recipe file and sets _recipe_active; neither stop_monitoring nor the
\* loop's exit path touches them): idle, no thread, not connected, the
\* commands of the earlier run not counted.
InitActive ==
    /\ state = "idle"
    /\ recipe = load_recipe
    /\ printer_ip = "config"
    /\ last_processed_layer = None
    /\ recipe_active = TRUE
    /\ stop_event = FALSE
    /\ estop_at = "none"
    /\ quiescent = FALSE
    /\ lock = "free"
    /\ mpc = "none"
    /\ mlayer = None
    /\ mdone = FALSE
    /\ mcmd = NoCmd
    /\ cyc = <<>>
    /\ changes = <<>>
    /\ last_event = NoEvent
    /\ cpc = "c_idle"
    /\ ccmd = NoCmd
    /\ connected = FALSE
    /\ command_queue = <<>>
    /\ nextId = 1
    /\ handled = [i \in 1..MaxCmds |-> 0]
    /\ answered = [i \in 1..MaxCmds |-> 0]
    /\ printer = [mode |-> "print", layer |-> 0]
    /\ xpc = "x_idle"
    /\ xret = "none"
    /\ snapshot = NoSnapshot
    /\ recipe_text = RecipeFileText
    /\ pairs = <<>>
    /\ lpc = "l_idle"
    /\ resaved = NotResaved
    /\ link = NoRequest
    /\ pumprun = NoPumpRun
    /\ mmu = NoSequence
    /\ cmdres = NoResult

\* Commands the web application sends during a run that starts with the
\* recipe active.
ActiveCmdTypes == {"emergency_stop", "pump_control", "pump_control_bad"}

NextActive ==
    \/ EnvStep
    \/ \E t \in ActiveCmdTypes : command(t)
    \/ \E ok \in BOOLEAN : _handle_websocket_command_end(ok)
    \/ MonStep

\* The runs that start with the recipe active.
SpecActive == InitActive /\ [][NextActive]_vars

\* The commands are those that stop the print or activate the recipe, and
\* one whose handler raises.
NextStopPrint ==
    \/ EnvStep
    \/ \E t \in {"stop_print", "start_multi_material", "pump_control_bad"} :
           command(t)
    \/ \E ok \in BOOLEAN : _handle_websocket_command_end(ok)
    \/ MonStep

\* The runs that start with the recipe active and receive a stop_print or
\* start_multi_material command.
SpecStopPrint == InitActive /\ [][NextStopPrint]_vars

\* The same run, with an external caller that also reads the state with
\* get_current_state.
NextSnapshot ==
    \/ NextActive
    \/ get_current_state
    \/ get_current_state_end

SpecSnapshot == InitActive /\ [][NextSnapshot]_vars

\* Entries a recipe text is made of: well-formed ones (with blanks, lower
\* case, a sign, a leading zero, a layer of two digits), and ones
\* load_recipe skips (no comma, empty, material not A-D, layer zero,
\* negative, not a number, a second comma).
EntryTexts ==
    {<<"A", ",", "1">>,
     <<"B", ",", "1">>,
     <<" ", "b", " ", ",", " ", "2", " ">>,
     <<"c", ",", "+", "2">>,
     <<"D", ",", "0", "1", "2">>,
     <<"E", ",", "1">>,
     <<"A", ",", "0">>,
     <<"C", ",", "-", "1">>,
     <<"D", ",", "x">>,
     <<"A", "1">>,
     <<"A", ",", "1", ",", "2">>,
     <<>>}

\* The recipe texts: up to MaxEntries entries joined by ":".
RecipeTexts ==
    {join(es, ":") : es \in UNION {[1..n -> EntryTexts] : n \in 0..MaxEntries}}

\* A controller that loads a recipe file of any of these texts, the web
\* application rewriting the file once; no run is started.
InitRecipe ==
    /\ state = "idle"
    /\ recipe = NoRecipe
    /\ printer_ip = "config"
    /\ last_processed_layer = None
    /\ recipe_active = FALSE
    /\ stop_event = FALSE
    /\ estop_at = "none"
    /\ quiescent = FALSE
    /\ lock = "free"
    /\ mpc = "none"
    /\ mlayer = None
    /\ mdone = FALSE
    /\ mcmd = NoCmd
    /\ cyc = <<>>
    /\ changes = <<>>
    /\ last_event = NoEvent
    /\ cpc = "c_idle"
    /\ ccmd = NoCmd
    /\ connected = FALSE
    /\ command_queue = <<>>
    /\ nextId = 1
    /\ handled = [i \in 1..MaxCmds |-> 0]
    /\ answered = [i \in 1..MaxCmds |-> 0]
    /\ printer = [mode |-> "print", layer |-> 0]
    /\ xpc = "x_idle"
    /\ xret = "none"
    /\ snapshot = NoSnapshot
    /\ recipe_text \in RecipeTexts
    /\ pairs = <<>>
    /\ lpc = "l_idle"
    /\ resaved = NotResaved
    /\ link = NoRequest
    /\ pumprun = NoPumpRun
    /\ mmu = NoSequence
    /\ cmdres = NoResult

NextRecipe ==
    \/ load_recipe_begin
    \/ load_recipe_next
    \/ load_recipe_end
    \/ api_save_recipe

SpecRecipe == InitRecipe /\ [][NextRecipe]_vars

\* The printer link by itself: requests made one after the other, each
\* attempt with any of its outcomes.
NextLink ==
    \/ \E request \in LinkCommands : _run_printer_command(request)
    \/ \E outcome \in AttemptOutcomes : send_request(outcome)
    \/ retry_sleep
    \/ raise_connection_failure

SpecLink == Init /\ [][NextLink]_vars

\* One pump run by volume, for any volume up to MaxVolume and any of the
\* configured flow rates; nothing else happens.
InitPump ==
    /\ state = "idle"
    /\ recipe = NoRecipe
    /\ printer_ip = "config"
    /\ last_processed_layer = None
    /\ recipe_active = FALSE
    /\ stop_event = FALSE
    /\ estop_at = "none"
    /\ quiescent = FALSE
    /\ lock = "free"
    /\ mpc = "none"
    /\ mlayer = None
    /\ mdone = FALSE
    /\ mcmd = NoCmd
    /\ cyc = <<>>
    /\ changes = <<>>
    /\ last_event = NoEvent
    /\ cpc = "c_idle"
    /\ ccmd = NoCmd
    /\ connected = FALSE
    /\ command_queue = <<>>
    /\ nextId = 1
    /\ handled = [i \in 1..MaxCmds |-> 0]
    /\ answered = [i \in 1..MaxCmds |-> 0]
    /\ printer = [mode |-> "print", layer |-> 0]
    /\ xpc = "x_idle"
    /\ xret = "none"
    /\ snapshot = NoSnapshot
    /\ recipe_text = RecipeFileText
    /\ pairs = <<>>
    /\ lpc = "l_idle"
    /\ resaved = NotResaved
    /\ link = NoRequest
    /\ mmu = NoSequence
    /\ cmdres = NoResult
    /\ \E volume \in 0..MaxVolume, flow \in FlowRates :
           pumprun = [pc |-> "v_idle", volume_ml |-> volume,
                      flow_rate |-> flow, usr_time |-> 0]

\* One hardware command after the other, on either thread (the receive
\* callback _handle_websocket_command or the monitoring loop's command
\* fetch), with any outcome of the delegated operation: the printer request
\* or pump run returns True, returns False or raises; or it is not made
\* (printer_comms or mmu_control is missing, or the pump parameters are
\* incomplete).
NextResult ==
    \/ \E thread \in {"socket", "loop"}, type \in HardwareCmds :
           _process_shared_command(thread, type)
    \/ \E outcome \in {"succeeded", "failed", "raised", "not_made"} :
           delegated_operation(outcome)
    \/ _process_shared_command_end
    \/ command_result

SpecResult == Init /\ [][NextResult]_vars

\* change_material alone, with any solenoid settings: the values of
\* activate_before_drain_delay_seconds and
\* deactivate_after_drain_delay_seconds in the pump profile file (seconds)
\* are not validated.
NextValve ==
    \/ \E enabled \in BOOLEAN, pre \in {-1, 0, 1}, post \in {-1, 0, 1} :
           change_material(enabled, pre, post)
    \/ \E ok \in BOOLEAN : activate_solenoid(ok)
    \/ pre_drain_delay
    \/ \E ok \in BOOLEAN : run_drain(ok)
    \/ post_drain_delay
    \/ \E ok \in BOOLEAN : deactivate_solenoid(ok)
    \/ \E ok \in BOOLEAN : run_fill(ok)
    \/ settle

SpecValve == Init /\ [][NextValve]_vars

NextPump ==
    \/ run_pump_volume
    \/ run_pump
    \/ run_pump_done

SpecPump == InitPump /\ [][NextPump]_vars

\* ----------------------------------------------------------------- typing
TypeOK ==
    /\ state \in States
    /\ DOMAIN recipe \subseteq DOMAIN RecipeFile
    /\ last_processed_layer \in 0..MaxLayer
    /\ recipe_active \in BOOLEAN /\ stop_event \in BOOLEAN
    /\ quiescent \in BOOLEAN
    /\ lock \in {"free", "ext"}
    /\ connected \in BOOLEAN
    /\ Len(command_queue) <= MaxCmds
    /\ printer.layer \in 0..MaxLayer

\* ================================================================= claims
\* A call of start_monitoring, with any arguments.
StartCall ==
    \E ip \in {"none", "arg"}, path \in {"none", "good", "bad"},
       up \in BOOLEAN : start_monitoring(ip, path, up)

\* C1: start_monitoring succeeds only from the idle state. Called in any
\* other state it returns failure and changes nothing: the state stays as
\* it was and no thread is created. A call that returns success was made in
\* the idle state and leaves the state starting with the thread created.
C1_StartOnlyFromIdle ==
    [][/\ (StartCall /\ state # "idle") =>
            /\ xret' = "start_rejected"
            /\ UNCHANGED <<orchVars, monVars, sockVars, chanVars, printer,
                           xpc, lock>>
       /\ (StartCall /\ xret' = "start_true") =>
            /\ state = "idle"
            /\ state' = "starting"
            /\ mpc' = "m_start"
       /\ (mpc' = "m_start" /\ mpc # "m_start") => state = "idle"]_vars

\* C1 witness: a start was rejected while a run is in progress, and the
\* run goes on.
C1_Witness ==
    /\ xret = "start_rejected"
    /\ state = "material_changing"
    /\ mpc = "m_drain_wait"

\* C2: within one run, with the recipe active, a poll that reports a layer
\* of the recipe triggers a material change for that layer's material if
\* no change was triggered for the layer before, and nothing else triggers
\* one: the changes of a run are for recipe layers, in strictly increasing
\* layer order (so never twice for a layer), each at the first poll that
\* reports its layer; a run that ends because the print is complete ends
\* in the idle state.
C2_OneChangePerRecipeLayer ==
    [][/\ \A i \in 1..Len(changes') :
            /\ changes'[i].layer \in DOMAIN RecipeFile
            /\ changes'[i].material = RecipeFile[changes'[i].layer]
            /\ \A j \in 1..Len(changes') :
                   i < j => changes'[i].layer < changes'[j].layer
       /\ (/\ mpc = "m_poll_wait"
           /\ mlayer' # None
           /\ recipe_active
           /\ mlayer' \in DOMAIN recipe
           /\ mlayer' \notin Layers(changes))
          => /\ changes' = Append(changes, [layer |-> mlayer',
                                            material |-> RecipeFile[mlayer']])
             /\ mpc' = "m_set_changing"
       /\ (changes' # changes /\ changes' # <<>>)
          => /\ mpc = "m_poll_wait"
             /\ recipe_active
             /\ Len(changes') = Len(changes) + 1
             /\ changes'[Len(changes')].layer = printer.layer
       /\ (mpc # "m_exit" /\ mpc' = "m_exit" /\ mdone) => state' = "idle"]_vars

\* C2 witness: the run met both recipe layers, changed to A and then to B,
\* saw the print complete and ended idle.
C2_Witness ==
    /\ changes = <<[layer |-> 1, material |-> "A"],
                   [layer |-> 2, material |-> "B"]>>
    /\ mpc = "m_exit"
    /\ mdone
    /\ state = "idle"
    /\ printer.layer = MaxLayer

\* Hardware operations in flight. The monitoring thread is inside a pump
\* run between the start and the return of the drain or fill pump, or of
\* the pump of a pump_control command it dispatched; it is inside a printer
\* request during a status poll, the pause, the verifying poll, the resume,
\* or the request of a printer command it dispatched. The socket thread is
\* inside the pump run or printer request of the command its callback
\* handles.
MonPump ==
    \/ mpc \in {"m_drain_wait", "m_fill_wait"}
    \/ mpc = "m_exec_hw" /\ mcmd.type \in PumpCmds
MonPrinter ==
    \/ mpc \in {"m_poll_wait", "m_pause_wait", "m_verify_wait",
                 "m_resume_wait"}
    \/ mpc = "m_exec_hw" /\ mcmd.type \in PrinterCmds
SockPump == cpc = "c_hw" /\ ccmd.type \in PumpCmds
SockPrinter == cpc = "c_hw" /\ ccmd.type \in PrinterCmds

\* C3: at every instant at most one hardware-affecting operation is in
\* flight: never two pump runs, and never a pump run together with a
\* printer request, whatever the interleaving of the monitoring thread and
\* the command channel's receive callback.
C3_OneHardwareOperation ==
    /\ ~(MonPump /\ SockPump)
    /\ ~(MonPump /\ SockPrinter)
    /\ ~(MonPrinter /\ SockPump)

\* C4: every command received on the command channel is consumed exactly
\* once: _process_shared_command has run for it one time, not zero and not
\* two or more.
C4_ConsumedExactlyOnce ==
    \A i \in 1..MaxCmds : i < nextId => handled[i] = 1

\* C5: every command the orchestrator has consumed (its handler has run and
\* returned or raised) has been answered with a command_result carrying
\* the id of that command.
C5_EveryConsumedAnswered ==
    \A i \in 1..MaxCmds :
        (handled[i] > 0 /\ ccmd.id # i /\ mcmd.id # i) => answered[i] >= 1

\* C6: if the fill step of a material change reports failure, the resume
\* request is never issued in that cycle, the failure is reported at once
\* with a MATERIAL event of level error, and the loop reports the failed
\* change with a MATERIAL event of level error when the sequencer returns.
C6_FillFailureNoResume ==
    [][/\ "fill_failed" \in Range(cyc') =>
            /\ "resume_sent" \notin Range(cyc')
            /\ mpc' \notin {"m_resume", "m_resume_wait", "m_change_ok"}
       /\ (mpc = "m_fill_wait" /\ "fill_failed" \in Range(cyc')) =>
            /\ last_event' = Event("MATERIAL", "error")
            /\ mpc' = "m_enter_error"
       /\ (mpc = "m_change_failed" /\ mpc' # "m_change_failed") =>
            last_event' = Event("MATERIAL", "error")]_vars

\* C6 witness: the fill pump failed after a successful pause and drain, the
\* sequencer returned without a resume request, the loop reported the
\* failed change, and the printer is still paused.
C6_Witness ==
    /\ cyc = <<"pause", "bed_wait", "drain", "fill_failed">>
    /\ mpc = "m_set_monitoring"
    /\ last_event = Event("MATERIAL", "error")
    /\ printer.mode = "pause"

\* C7: if the resume request fails after a material change whose pump
\* sequence succeeded, the loop stops and, once it has left its exit path,
\* the state is error (or stopping, when an external caller asked for a
\* stop meanwhile); it is neither idle nor monitoring.
C7_ResumeFailureEndsInError ==
    (mpc = "m_exit" /\ "resume_failed" \in Range(cyc))
        => state \in {"error", "stopping"}

\* C8: an exception raised inside the loop body is caught by the loop's
\* "except Exception" handler, and when that handler is done the state is
\* error, the cancellation signal (the stop event) is asserted and an
\* error-level event has been emitted.
C8_ExceptionErrorStopEvent ==
    [][(mpc = "m_except" /\ mpc' = "m_finally")
          => /\ state' = "error"
             /\ stop_event'
             /\ last_event'.level = "error"]_vars

\* C9: error is terminal: once the state is error, no step of the
\* monitoring thread (loop body or exit path) and no step of a command
\* handler changes it; only an external caller's start or stop does.
C9_ErrorIsTerminal ==
    [][(/\ state = "error"
        /\ mpc' # "m_start"
        /\ (mpc' # mpc \/ cpc' # cpc \/ handled' # handled))
          => state' = "error"]_vars

\* C10: while the caller of stop_monitoring waits for the loop, the loop's
\* exit path is not blocked by that caller: the monitoring thread is never
\* waiting for the state lock in its exit path while the stop caller holds
\* the lock in join.
C10_ExitNotBlockedByStop ==
    ~(mpc = "m_final_lock" /\ xpc = "x_join" /\ lock = "ext")

\* The monitoring thread is inside _monitoring_loop, before the end of its
\* exit path.
LoopRunning == mpc \notin {"none", "m_exit"}

\* C11: once the stop event is set while the loop runs, the loop eventually
\* leaves through its exit path, also when the stop caller has given up
\* (its join timed out); and the exit path leaves the state idle unless it
\* is error.
C11_StopEventEndsLoop ==
    /\ (stop_event /\ LoopRunning) ~> ~LoopRunning
    /\ [][(mpc = "m_final_lock" /\ mpc' = "m_exit")
            => state' \in {"idle", "error"}]_vars

\* C11 witness: the stop caller gave up (stop_monitoring returned False
\* with the state left stopping), and the loop has since gone through its
\* exit path and left the state idle.
C11_Witness ==
    /\ xret = "stop_false"
    /\ xpc = "x_idle"
    /\ stop_event
    /\ mpc = "m_exit"
    /\ state = "idle"

\* The steps of a material change in which nothing failed and no wait was
\* interrupted.
FullCycle == <<"pause", "bed_wait", "drain", "fill", "settle", "resume_sent",
               "resumed">>

\* A step of the cycle failed (a pump or the printer reported failure).
CycleFailed ==
    \E f \in {"pause_failed", "drain_failed", "fill_failed", "resume_failed"} :
        f \in Range(cyc)

\* C12: an emergency stop that arrives while the drain pump runs does not
\* abort the drain: the monitoring thread goes on through drain, fill,
\* settle and resume, and unless one of these steps fails by itself the
\* cycle is complete when the sequencer returns; after the cycle the loop
\* goes to its exit path without starting another iteration (no command
\* dispatch, no poll, no further material change).
C12_EmergencyStopDuringDrain ==
    estop_at = "m_drain_wait" =>
        /\ mpc \in {"m_drain_wait", "m_fill", "m_fill_wait", "m_resume",
                     "m_resume_wait", "m_change_ok", "m_enter_error",
                     "m_change_failed", "m_set_monitoring", "m_top",
                     "m_finally", "m_final_lock", "m_exit", "none"}
        /\ mpc \in {"m_fill", "m_fill_wait"} =>
               cyc = <<"pause", "bed_wait", "drain">>
        /\ mpc \in {"m_resume", "m_resume_wait"} =>
               SubSeq(cyc, 1, 5) = SubSeq(FullCycle, 1, 5)
        /\ mpc \in {"m_change_ok", "m_set_monitoring", "m_top", "m_finally",
                     "m_final_lock", "m_exit"} =>
               (cyc = FullCycle \/ CycleFailed)

\* C12 witness: the emergency stop came during the drain, the cycle ran to
\* its end with the printer resumed, and the loop has left.
C12_Witness ==
    /\ estop_at = "m_drain_wait"
    /\ cyc = FullCycle
    /\ mpc = "m_exit"
    /\ printer.mode = "print"
    /\ state = "idle"

\* C13: when stop_monitoring sets the stop event while the loop is in the
\* bed-raise wait, the wait is interrupted and the loop leaves without
\* executing any further step of the material change: after the
\* interrupted wait the monitoring thread never runs the drain pump, the
\* fill pump or the resume request of that cycle.
C13_StopInBedWaitSkipsRest ==
    ("bed_wait_interrupted" \in Range(cyc) /\ estop_at = "none")
        => /\ mpc \notin {"m_drain_wait", "m_fill", "m_fill_wait",
                           "m_resume", "m_resume_wait", "m_change_ok"}
           /\ cyc[Len(cyc)] = "bed_wait_interrupted"

\* C14: a start_monitoring call in the idle state whose recipe source fails
\* to load returns False, leaves the state error and creates no monitoring
\* thread. A start that returns True has created exactly one monitoring
\* thread (no other loop is running), leaves the state starting or
\* monitoring, last_processed_layer reset and the stop event clear.
C14_StartLoadFailureAborts ==
    [][/\ \A ip \in {"none", "arg"}, up \in BOOLEAN :
            (start_monitoring(ip, "bad", up) /\ state = "idle") =>
                /\ xret' = "start_load_failed"
                /\ state' = "error"
                /\ UNCHANGED <<mpc, recipe, stop_event, last_processed_layer>>
       /\ (StartCall /\ xret' = "start_true") =>
            /\ mpc \in {"none", "m_exit"}
            /\ mpc' = "m_start"
            /\ state' \in {"starting", "monitoring"}
            /\ last_processed_layer' = None
            /\ ~stop_event']_vars

\* C14 witness: a start failed at the recipe load after an earlier run had
\* ended with the stop event set; no thread was created by that start.
C14_Witness ==
    /\ xret = "start_load_failed"
    /\ state = "error"
    /\ mpc = "m_exit"
    /\ stop_event

\* C15: whenever the status returned by a poll indicates completion
\* (_is_print_complete is true of it), whatever current layer it reports,
\* the loop handles the completion in that iteration: it leaves the loop
\* for its exit path, or first runs the material change due at that layer
\* with the completion remembered.
C15_CompletionEndsLoop ==
    [][(loop_poll_end(TRUE) /\ _is_print_complete(StatusOf(printer))) =>
            \/ mpc' = "m_finally"
            \/ mpc' = "m_set_changing" /\ mdone']_vars

\* C16: every dictionary get_current_state returns is consistent: its
\* recipe_count equals the number of its remaining_changes (which are the
\* keys the recipe had when recipe_count was taken), whatever the
\* monitoring loop or a command handler does to the recipe meanwhile.
C16_SnapshotConsistent ==
    [][get_current_state_end =>
            get_current_state_result.recipe_count
                = Len(get_current_state_result.remaining_changes)]_vars

\* C17: a pump jog command that fails validation (here: a motor id that
\* is no pump name at all, not even a string) is rejected where the loop
\* dispatches it: the dispatch ends with no pump running and the loop going
\* on to its poll, not in the loop's exception handler (which sets the
\* state to error and ends the run), and state, recipe, recipe_active and
\* the stop event are as before.
C17_InvalidPumpJogRejected ==
    [][(loop_dispatch /\ mcmd.type = "pump_control_bad") =>
            /\ mpc' = "m_poll"
            /\ ~MonPump'
            /\ UNCHANGED <<state, recipe, recipe_active, stop_event>>]_vars

\* C18: in an iteration the command the loop took from the queue has been
\* handled to its end, result sent, before the loop polls the printer; so
\* when the loop starts a poll no pump jog is still executing: a jog
\* submitted before has run to completion.
C18_CommandBeforePoll ==
    [][(loop_poll /\ mpc' = "m_poll_wait") =>
            /\ mcmd = NoCmd
            /\ ~SockPump]_vars

\* The reference parse of a recipe text. Its entries are the parts between
\* the colons of the stripped text; an entry counts if it has a comma, the
\* part before its first comma is, stripped and in upper case, one of A, B,
\* C, D, and the part after it parses as an integer > 0. The mapping takes
\* each layer of a counting entry to the material of the last counting
\* entry with that layer.
RefEntries(t) == IF strip(t) = <<>> THEN <<>> ELSE split(strip(t), ":")
RefMaterial(e) == upper(strip(SubSeq(e, 1, IndexOf(e, ",") - 1)))
RefLayerText(e) == SubSeq(e, IndexOf(e, ",") + 1, Len(e))
RefCounts(e) ==
    /\ Contains(e, ",")
    /\ RefMaterial(e) \in {<<"A">>, <<"B">>, <<"C">>, <<"D">>}
    /\ ParsesAsInt(RefLayerText(e))
    /\ int(RefLayerText(e)) > 0
ReferenceParse(t) ==
    LET es == RefEntries(t)
        ok == {i \in 1..Len(es) : RefCounts(es[i])}
        at(l) == {i \in ok : int(RefLayerText(es[i])) = l}
        last(l) == CHOOSE i \in at(l) : \A j \in at(l) : j <= i
    IN  [l \in {int(RefLayerText(es[i])) : i \in ok} |->
            RefMaterial(es[last(l)])[1]]

\* C19: for every recipe text, when load_recipe has returned the recipe is
\* exactly the reference parse of the text; so every key of it is a
\* positive integer and every value is one of A, B, C, D.
C19_LoadRecipeIsReferenceParse ==
    lpc = "l_done" =>
        /\ recipe = ReferenceParse(recipe_text)
        /\ \A l \in DOMAIN recipe :
               l \in Nat /\ l > 0 /\ recipe[l] \in {"A", "B", "C", "D"}

\* C19 witness: a text with an entry of an invalid material, a duplicate
\* layer in lower case and a layer 0 has been loaded: the invalid entries
\* are skipped, the others loaded, the later duplicate kept.
C19_Witness ==
    /\ lpc = "l_done"
    /\ recipe_text = join(<<<<"A", ",", "1">>, <<"E", ",", "1">>,
                            <<" ", "b", " ", ",", " ", "2", " ">>>>, ":")
    /\ recipe = (1 :> "A") @@ (2 :> "B")

\* A recipe text is well formed: it is empty, or each of its entries is a
\* material A-D and a positive layer.
WellFormed(t) == \A i \in 1..Len(RefEntries(t)) : RefCounts(RefEntries(t)[i])

\* C20: for every well-formed recipe text, after the round trip (the text
\* parsed, saved again in the MATERIAL,LAYER:... format, and loaded again)
\* the recipe is the mapping loaded from the original text: the same
\* layers, and for each layer a material the original text gives for that
\* layer (the same material where the text has the layer once).
C20_RoundTripSameMapping ==
    (lpc = "l_done" /\ resaved.done /\ WellFormed(resaved.text)) =>
        /\ DOMAIN recipe = DOMAIN resaved.recipe
        /\ \A l \in DOMAIN recipe :
               \E i \in 1..Len(RefEntries(resaved.text)) :
                  /\ int(RefLayerText(RefEntries(resaved.text)[i])) = l
                  /\ RefMaterial(RefEntries(resaved.text)[i])[1] = recipe[l]

\* C20 witness: a well-formed text with blanks, lower case, a sign and a
\* duplicate layer went through the round trip and was loaded again.
C20_Witness ==
    /\ lpc = "l_done"
    /\ resaved.done
    /\ resaved.text = join(<<<<"c", ",", "+", "2">>, <<"A", ",", "1">>,
                             <<" ", "b", " ", ",", " ", "2", " ">>>>, ":")
    /\ recipe_text = <<"A", ",", "1", ":", "c", ",", "2", ":", "b", ",", "2">>
    /\ recipe = (1 :> "A") @@ (2 :> "B")

\* The attempts of the current request that failed with a connection error.
ConnectionFailures ==
    {i \in 1..Len(link.outcomes) : link.outcomes[i] = "connection_error"}

\* C21: a printer request is attempted at most 3 times; every attempt before
\* the last one made failed with a connection error (a retry follows only
\* such a failure, and nothing follows a reply); the call returns a reply
\* exactly when its last attempt succeeded, and it raises the
\* connection failure exactly after 3 connection errors in a row.
C21_AtMostThreeAttempts ==
    /\ Len(link.outcomes) <= 3
    /\ \A i \in 1..(Len(link.outcomes) - 1) :
           link.outcomes[i] = "connection_error"
    /\ link.pc = "r_returned" =>
           link.outcomes[Len(link.outcomes)] = "reply"
    /\ link.pc = "r_sleep" =>
           link.outcomes[Len(link.outcomes)] = "connection_error"
    /\ link.pc = "r_raised" =>
           link.outcomes = <<"connection_error", "connection_error",
                             "connection_error">>
    /\ (link.pc = "r_send" /\ Len(link.outcomes) = 3) =>
           Cardinality(ConnectionFailures) = 3

\* C21 witness: a pause request has failed three times with a connection
\* error and the call has raised.
C21_Witness ==
    /\ link.pc = "r_raised"
    /\ link.command = "gopause"
    /\ Cardinality(ConnectionFailures) = 3

\* C22: when run_pump_volume runs a pump for volume v ml at flow rate f
\* ml/s, the pump driver is run for exactly v / f seconds: the time given to
\* the driver, multiplied by the flow rate, is the volume.
C22_DriverRunsComputedDuration ==
    pumprun.pc \in {"v_running", "v_done"} =>
        pumprun.usr_time * pumprun.flow_rate = 10 * pumprun.volume_ml

\* The transitions of the state machine. A start_monitoring call that fails
\* after it has set the state starting goes idle -> starting -> error inside
\* one critical section; it shows as idle -> error.
Transitions ==
    {<<"idle", "starting">>, <<"starting", "monitoring">>,
     <<"starting", "error">>, <<"monitoring", "material_changing">>,
     <<"material_changing", "monitoring">>, <<"monitoring", "stopping">>,
     <<"monitoring", "error">>, <<"stopping", "idle">>,
     <<"monitoring", "idle">>, <<"idle", "error">>}

\* C23: every change of the state is one of the transitions of the state
\* machine; no other change (such as error -> monitoring or stopping ->
\* monitoring) ever occurs.
C23_OnlyListedTransitions ==
    [][state' # state => <<state, state'>> \in Transitions]_vars

\* The step a cycle entry stands for: an interrupted bed-raise wait is still
\* the bed-raise wait of the cycle.
StepOf(entry) == IF entry = "bed_wait_interrupted" THEN "bed_wait" ELSE entry

\* The entry that records the failure of a step (the waits cannot fail).
FailureOf(step) ==
    CASE step = "pause" -> "pause_failed"
      [] step = "drain" -> "drain_failed"
      [] step = "fill" -> "fill_failed"
      [] step = "resumed" -> "resume_failed"
      [] OTHER -> "none"

\* C24: a recipe-triggered material change executes its steps in the order
\* pause, bed-raise wait, drain, fill, settle, resume, and a failing step is
\* the last step of its cycle: the drain pump runs only after the pause
\* succeeded and the bed-raise wait ended, the fill pump only after the
\* drain pump succeeded, and the resume request is issued only after drain,
\* fill and settle all succeeded.
C24_StepsInOrder ==
    /\ Len(cyc) <= Len(FullCycle)
    /\ \A i \in 1..Len(cyc) :
          \/ StepOf(cyc[i]) = FullCycle[i]
          \/ i = Len(cyc) /\ cyc[i] = FailureOf(FullCycle[i])
    /\ mpc \in {"m_bed_wait", "m_verify_wait"} => cyc = <<"pause">>
    /\ mpc \in {"m_drain", "m_drain_wait"} =>
          /\ Len(cyc) = 2
          /\ cyc[1] = "pause" /\ StepOf(cyc[2]) = "bed_wait"
    /\ mpc \in {"m_fill", "m_fill_wait"} =>
          /\ Len(cyc) = 3
          /\ cyc[3] = "drain"
    /\ mpc \in {"m_resume", "m_resume_wait"} =>
          /\ Len(cyc) >= 5
          /\ SubSeq(cyc, 3, 5) = <<"drain", "fill", "settle">>
    /\ "resume_sent" \in Range(cyc) =>
          {"pause", "drain", "fill", "settle"} \subseteq Range(cyc)

\* C24 witness: a cycle went through all six steps in order and the printer
\* acknowledged the resume.
C24_Witness ==
    /\ cyc = FullCycle
    /\ mpc = "m_change_ok"

\* C25: in a material change the resume request is never sent while the
\* quiescent window opened by that cycle's pause is still active; the
\* request is sent only once the window's deadline has passed, also when
\* the stop event is set during the wait.
C25_ResumeAfterWindow ==
    [][(mpc = "m_resume" /\ mpc' = "m_resume_wait") => ~quiescent]_vars

\* A status poll or a printer command other than the cycle's own pause and
\* resume starts in this step: the loop's poll, the verifying poll of the
\* bed-raise wait, or a printer command of a command handler on either
\* thread.
PrinterRequestStarts ==
    \/ mpc # mpc' /\ mpc' \in {"m_poll_wait", "m_verify_wait"}
    \/ mpc # "m_exec_hw" /\ mpc' = "m_exec_hw" /\ mcmd'.type \in PrinterCmds
    \/ cpc # "c_hw" /\ cpc' = "c_hw" /\ ccmd'.type \in PrinterCmds

\* C26: while the quiescent window is active no status poll and no other
\* printer command is sent on any path (loop poll, verifying poll of the
\* bed-raise wait, command handlers), and a loop iteration that falls inside
\* the window skips its poll.
C26_NoRequestInWindow ==
    [][/\ PrinterRequestStarts => ~quiescent
       /\ (mpc = "m_poll" /\ quiescent) => mpc' # "m_poll_wait"]_vars

\* C27: a failed status poll is not fatal. The step in which the poll
\* returns no status emits the "Printer disconnected" event and leads to
\* the wait that ends the iteration, without changing the state, the
\* recipe, last_processed_layer or the stop event; after the wait, unless
\* the stop event was set meanwhile, the next iteration starts (command
\* fetch, then the poll) and the state is not error.
C27_FailedPollNotFatal ==
    [][/\ (mpc = "m_poll_wait" /\ last_event' = Event("PRINTER_STATUS", "warning")) =>
            /\ mpc' = "m_top"
            /\ UNCHANGED <<state, recipe, last_processed_layer, recipe_active,
                           stop_event>>
       /\ (/\ mpc = "m_top" /\ mpc' # "m_top"
           /\ last_event = Event("PRINTER_STATUS", "warning")
           /\ ~stop_event) =>
            /\ mpc' \in {"m_exec", "m_poll"}
            /\ state' = state]_vars

\* C27 witness: a poll failed while a recipe is active in state monitoring;
\* the loop is at the start of its next iteration, the state is still
\* monitoring and nothing was cancelled.
C27_Witness ==
    /\ mpc = "m_top"
    /\ last_event = Event("PRINTER_STATUS", "warning")
    /\ state = "monitoring"
    /\ recipe_active
    /\ ~quiescent
    /\ ~stop_event
    /\ changes = <<>>

\* C28: in a loop iteration a material change is started if and only if
\* recipe_active is true, the polled layer is a key of the recipe and the
\* layer differs from last_processed_layer: a change starts only in the step
\* in which a poll returns, only under these three conditions (so never with
\* recipe_active false and never for layer 0 or a layer the recipe does not
\* have), and a poll that returns a layer under these conditions starts one.
C28_ChangeStartedIff ==
    [][/\ (mpc # "m_set_changing" /\ mpc' = "m_set_changing") =>
            /\ mpc = "m_poll_wait"
            /\ recipe_active
            /\ printer.layer > 0
            /\ printer.layer \in DOMAIN recipe
            /\ printer.layer # last_processed_layer
            /\ mlayer' = printer.layer
       /\ (/\ mpc = "m_poll_wait" /\ mpc' # "m_poll_wait"
           /\ mlayer' # None
           /\ recipe_active
           /\ mlayer' \in DOMAIN recipe
           /\ mlayer' # last_processed_layer) =>
            mpc' = "m_set_changing"]_vars

\* C28 witness: with layer 1 handled, a poll reported layer 2 of the active
\* recipe and the second material change is starting.
C28_Witness ==
    /\ mpc = "m_set_changing"
    /\ recipe_active
    /\ last_processed_layer = 1
    /\ mlayer = 2
    /\ 2 \in DOMAIN recipe

\* The monitoring thread is inside a material change: from the trigger to
\* the return of _handle_material_change.
InChange ==
    mpc \in {"m_set_changing", "m_pause", "m_pause_wait", "m_bed_wait",
             "m_verify_wait", "m_drain", "m_drain_wait", "m_fill",
             "m_fill_wait", "m_resume", "m_resume_wait", "m_enter_error",
             "m_change_ok", "m_change_failed"}

\* C29: after a material change has been attempted for layer L,
\* last_processed_layer equals L whether the change succeeded or failed:
\* the step that ends an attempt records the attempted layer, the record
\* stays for as long as the run's thread lives and no later change has
\* started, and no change starts for the layer the printer reports while
\* that layer is the one attempted last.
C29_AttemptedLayerRecorded ==
    [][/\ (mpc \in {"m_change_ok", "m_change_failed"} /\ mpc' # mpc) =>
            /\ last_processed_layer' = mlayer
            /\ mlayer = changes[Len(changes)].layer
       /\ (changes' # <<>> /\ ~InChange' /\ mpc' \notin {"none", "m_exit"}) =>
            last_processed_layer' = changes'[Len(changes')].layer
       /\ (changes # <<>> /\ ~InChange /\ InChange') =>
            printer.layer # changes[Len(changes)].layer]_vars

\* C29 witness: the change for layer 1 failed at the drain pump, layer 1 is
\* recorded, and the printer still reports layer 1.
C29_Witness ==
    /\ cyc = <<"pause", "bed_wait", "drain_failed">>
    /\ mpc = "m_set_monitoring"
    /\ changes = <<[layer |-> 1, material |-> "A"]>>
    /\ last_processed_layer = 1
    /\ printer.layer = 1

\* The cycle failed at the pause, the drain or the fill step.
SequenceStepFailed ==
    \E f \in {"pause_failed", "drain_failed", "fill_failed"} : f \in Range(cyc)

\* C30: a material change that fails at the pause, drain or fill step is
\* not fatal: handling the failure does not set the state to error and does
\* not set the stop event, and when the sequencer has returned the loop
\* sets the state back to monitoring.
C30_StepFailureNotFatal ==
    [][/\ (SequenceStepFailed /\ mpc = "m_enter_error" /\ mpc' # mpc) =>
            /\ state' # "error"
            /\ stop_event' = stop_event
       /\ (SequenceStepFailed /\ mpc = "m_set_monitoring" /\ mpc' # mpc) =>
            state' = "monitoring"]_vars

\* C31: once the material change for layer L has been executed,
\* successfully or not, L is no longer a key of the recipe; and apart from
\* the wholesale replacement by a load, this removal is the only change to
\* the recipe (no entry is added or retargeted).
C31_ExecutedLayerRemoved ==
    [][/\ (mpc \in {"m_change_ok", "m_change_failed"}
           /\ mpc' = "m_set_monitoring") =>
            mlayer \notin DOMAIN recipe'
       /\ recipe' # recipe =>
            \/ recipe' = load_recipe
            \/ mpc = "m_change_ok" /\ recipe' = Without(recipe, mlayer)]_vars

\* C32: with air-assist enabled, the valve is closed whenever
\* change_material returns, after a failed drain as well as on the success
\* path, and it is never open while the fill pump runs.
C32_ValveClosedOnReturn ==
    mmu.enabled =>
        /\ mmu.pc = "s_returned" => mmu.valve = "closed"
        /\ mmu.pc = "s_fill" => mmu.valve = "closed"

\* C33: while a monitoring loop is running, the recipe, recipe_active,
\* last_processed_layer, the quiescent deadline and the state's changes to
\* monitoring and material_changing are written only by steps of the
\* monitoring thread: no step of another thread (the channel's receive
\* callback, an external caller) writes them.
C33_OnlyLoopThreadWrites ==
    [][(/\ LoopRunning
        /\ \/ recipe' # recipe
           \/ recipe_active' # recipe_active
           \/ last_processed_layer' # last_processed_layer
           \/ ~quiescent /\ quiescent'
           \/ state' # state /\ state' \in {"monitoring", "material_changing"})
       => MonStep]_vars

\* C34: the stop event is idempotent and level-triggered: setting it again
\* leaves it set, once set it stays set for as long as the run's loop is
\* running, and it is cleared only by a start_monitoring call that is
\* accepted in the idle state, when no loop is running.
C34_StopEventStaysSet ==
    [][/\ (stop_event /\ ~stop_event') =>
            /\ StartCall
            /\ state = "idle"
            /\ ~LoopRunning
            /\ xret' \in {"start_true", "start_failed"}
       /\ (stop_event /\ LoopRunning) => stop_event']_vars

\* C34 witness: stop_monitoring set the stop event during a material change
\* and gave up waiting, the change then failed and _enter_error_state set
\* the event again; it is still set.
C34_Witness ==
    /\ stop_event
    /\ xret = "stop_false"
    /\ "pause" \in Range(cyc)
    /\ mpc = "m_change_failed"
    /\ state = "error"

\* C35: under any interleaving of start, stop (stop calls that time out
\* included), loop completion and loop failure, at most one monitoring loop
\* executes loop-body steps at any time: a thread is created only when no
\* thread is inside _monitoring_loop before the end of its exit path.
C35_OneLoopAtATime ==
    [][/\ (StartCall /\ xret' = "start_true") => ~LoopRunning
       /\ (mpc # "m_start" /\ mpc' = "m_start") =>
            /\ StartCall
            /\ mpc \in {"none", "m_exit"}]_vars

\* C35 witness: a second run was started after the first run's loop, which
\* had connected and handled a command, went through its exit path.
C35_Witness ==
    /\ mpc = "m_start"
    /\ state = "starting"
    /\ xret = "start_true"
    /\ handled[1] = 1
    /\ ~stop_event

\* C36: once the stop event is set, the monitoring loop starts no new
\* material change: no change is triggered, and no pause request and no
\* pump run of a change begins, while the event is set.
C36_NoChangeAfterStop ==
    [][(/\ mpc' # mpc
        /\ mpc' \in {"m_set_changing", "m_pause_wait", "m_drain_wait",
                     "m_fill_wait"})
       => ~stop_event]_vars

\* C37: a command received during one monitoring run is never executed
\* during a later run: no command is left in the command queue when a run
\* is started, and an emergency stop the loop takes from the queue never
\* sets a stop event that is clear (its receive callback set the event in
\* the run in which it arrived, and only a later start clears it).
C37_NoStaleCommand ==
    [][/\ (StartCall /\ xret' = "start_true") => command_queue = <<>>
       /\ (mpc = "m_exec" /\ mpc' # mpc /\ mcmd.type = "emergency_stop") =>
            stop_event]_vars

\* C38: a material change is triggered only at a poll whose layer is a key
\* of the recipe, for that very layer; an entry leaves the recipe only when
\* the change triggered for its own layer has succeeded. So a recipe layer
\* that no poll reports is never processed, not at a later, higher layer
\* either, and its entry stays in the recipe.
C38_OnlyExactLayerTriggers ==
    [][/\ (changes' # changes /\ changes' # <<>>) =>
            /\ changes'[Len(changes')].layer = printer.layer
            /\ printer.layer \in DOMAIN recipe
            /\ changes'[Len(changes')].material = recipe[printer.layer]
       /\ \A l \in DOMAIN recipe :
            l \notin DOMAIN recipe' =>
                /\ mpc = "m_change_ok"
                /\ l = mlayer
                /\ l = changes[Len(changes)].layer]_vars

\* C38 witness: the polls jumped past recipe layer 1; the change for layer
\* 2 was made, the print has gone on to layer 3, and the entry for layer 1
\* is still in the active recipe, never processed.
C38_Witness ==
    /\ changes = <<[layer |-> 2, material |-> "B"]>>
    /\ DOMAIN recipe = {1}
    /\ recipe_active
    /\ last_processed_layer = 2
    /\ printer.layer = 3
    /\ mpc = "m_poll_wait"

\* C39: for pause_print, resume_print, stop_print and pump_control the
\* command result reports success only if the delegated printer request or
\* pump run succeeded, and when the delegated operation failed or raised
\* the result reports failure.
C39_ResultReportsOutcome ==
    /\ (cmdres.pc = "p_answered" /\ cmdres.success = "True") =>
          cmdres.outcome = "succeeded"
    /\ (cmdres.pc \in {"p_answered", "p_unanswered"}
        /\ cmdres.outcome \in {"failed", "raised"}) =>
          /\ cmdres.pc = "p_answered"
          /\ cmdres.success = "False"

\* C40: after a stop_print command whose stop request succeeded
\* recipe_active is false; a stop_print whose request failed leaves
\* recipe_active as it was; recipe_active becomes true again only by a
\* start_multi_material command, and no material change is triggered while
\* it is false.
C40_StopPrintDeactivates ==
    [][/\ (\/ ccmd.type = "stop_print" /\ _handle_websocket_command_end(TRUE)
           \/ mcmd.type = "stop_print" /\ loop_dispatch_end(TRUE))
            => ~recipe_active'
       /\ (\/ ccmd.type = "stop_print" /\ _handle_websocket_command_end(FALSE)
           \/ mcmd.type = "stop_print" /\ loop_dispatch_end(FALSE))
            => recipe_active' = recipe_active
       /\ (~recipe_active /\ recipe_active')
            => \/ command("start_multi_material")
               \/ mcmd.type = "start_multi_material" /\ loop_dispatch
       /\ (changes' # changes /\ changes' # <<>>) => recipe_active]_vars

\* C40 witness: the recipe was active when a stop_print command stopped the
\* print at recipe layer 1; recipe_active is false, a poll has reported
\* layer 1 since, and no material change was triggered.
C40_Witness ==
    /\ ~recipe_active
    /\ printer = [mode |-> "stop", layer |-> 1]
    /\ 1 \in DOMAIN recipe
    /\ last_processed_layer = None
    /\ changes = <<>>
    /\ mlayer = 1
    /\ mpc = "m_top"

====
